---- MODULE Spec2Model ----
(***************************************************************************)
(* Model of the aster execution engine's control loop (src/core/main.py)   *)
(* and of the order/position lifecycle it drives (src/core/order.py).      *)
(*                                                                         *)
(* Time is in milliseconds, as in the code.  Quantities are counted in     *)
(* units of the symbol's stepSize.  An Optional value is a sequence of     *)
(* length 0 (None) or 1 (the value).                                       *)
(***************************************************************************)
EXTENDS Integers, Sequences, FiniteSets, TLC

None == << >>

Some(v) == << v >>

Val(o) == o[1]

Max(a, b) == IF a >= b THEN a ELSE b

Min(a, b) == IF a <= b THEN a ELSE b

Abs(a) == IF a >= 0 THEN a ELSE 0 - a

(***************************************************************************)
(* Bounds of the model.                                                    *)
(***************************************************************************)
\* the largest order quantity (in steps) the sizing step hands to entry()
MaxQty == 2

\* the largest absolute position the exchange is let to hold (in steps)
MaxExPos == 2

\* number of loop iterations explored (the loop counts them in n_poll_snapshots)
MaxPolls == 3

(***************************************************************************)
(* Program constants and the configuration the runs are explored under.    *)
(***************************************************************************)
MsPerSecond == 1000

MsPerMinute == 60000

MinutesPerDay == 1440

ForceExitRetryMs == 10000

reentry_cooldown_min == 10

daily_drawdown_blocker_pct == 5

risk_pct == 1

target_leverage == 25

\* margin_safety_multiple = 1.2, kept as the ratio 12/10
margin_safety_multiple_num == 12

margin_safety_multiple_den == 10

SymbolList == << "BTCUSDT" >>

Symbols == { SymbolList[i] : i \in 1..Len(SymbolList) }

\* 23:58:50 UTC of day 0: the clock when the loop starts
StartMs == (1438 * MsPerMinute) + (50 * MsPerSecond)

SlotMs == 5 * MsPerSecond

\* time between the starts of two consecutive iterations
TickGaps == { SlotMs, 10 * MsPerMinute }

\* totalMarginBalance values an account read can return (None: read failed)
BalanceReads == { None, Some(950), Some(1000) }

\* (totalMarginBalance, totalMaintMargin) of the account read in maybe_exit
AccountReads == { None,
                  Some([mb |-> 120, mm |-> 110]),
                  Some([mb |-> 120, mm |-> 50]),
                  Some([mb |-> 120, mm |-> 0]),
                  Some([mb |-> 0, mm |-> 110]) }

\* (entry_halt_utc, force_exit_utc) as minutes of the day
Schedules == { [entry_halt_min |-> 1439, force_exit_min |-> 1439] }

\* --force_exit_utc 23:58 with --entry_halt_utc 23:59: the halt after the cutoff
LateHaltSchedules == { [entry_halt_min |-> 1439, force_exit_min |-> 1438] }

Sides == { "BUY", "SELL" }

TriggerTypes == << "TAKE_PROFIT_MARKET", "STOP_MARKET", "TRAILING_STOP_MARKET" >>

VARIABLES
    cfg,                        \* parsed arguments: enable_trading, schedule
    pc,                         \* "loop" (top of the while), "symbols" (in the for), "stopped"
    sym_idx,                    \* position of the for loop in SymbolList
    ts_ms,                      \* tick time of the current iteration
    positions,                  \* symbol -> Optional PositionState
    trade_trackers,             \* symbol -> Optional tracker
    cooldown_until_ms,          \* symbol -> ms (0 when absent, as .get(sym, 0))
    last_force_exit_attempt_ms, \* symbol -> ms (0 when absent)
    risk,                       \* the daily_* variables of the loop
    ex_position_amt,            \* exchange: signed positionAmt per symbol
    ex_open_orders,             \* exchange: armed trigger orders per symbol
    ex_last_fired,              \* exchange: type of the trigger that filled last ("" if none)
    n_poll_snapshots,           \* client.n_poll_snapshots: iterations completed
    ev,                         \* what the last loop step did (observation only)
    last_forced_close_ms,       \* observation: tick time of the last forced-close submission
    last_close_ms,              \* observation: tick time of the last close the loop recorded
    exit_levels,                \* inputs and results of the exit level computation of one tick
    sizing,                     \* arguments and result of one compute_qty_for_notional call
    strat,                      \* the Strategy object of one symbol and its last decision
    klines,                     \* the client's 1-minute kline cache and derived bars of one symbol
    trades,                     \* the client's aggTrade buffer of one symbol
    feed,                       \* the client's caches, its lock, the stream thread and a tick's snapshot
    shutdown,                   \* the control loop's way out and the cleanup of its finally block
    pnl,                        \* arguments and row of one _finalize_trade call
    arming,                     \* arguments and trigger prices of one place_exit_triggers call
    signal,                     \* inputs and outcome of the signal part of one on_second call
    lifetime,                   \* a TradeTracker under _update_trade_tracker
    touch                       \* latest_bbo of one symbol and the entry attempt of one tick reading it

\* the variables of the control loop
loop_vars == << cfg, pc, sym_idx, ts_ms, positions, trade_trackers, cooldown_until_ms,
                last_force_exit_attempt_ms, risk, ex_position_amt, ex_open_orders,
                ex_last_fired, n_poll_snapshots, ev, last_forced_close_ms, last_close_ms >>

\* the variables of the computations studied on their own
aux_vars == << exit_levels, sizing, strat, klines, trades, feed, shutdown, pnl, arming, signal, lifetime, touch >>

vars == << loop_vars, aux_vars >>

AlwaysOrderPlacer == TRUE

\* order_placer is not None: an OrderPlacer is constructed only if enable_trading
HasOrderPlacer == cfg.enable_trading

(***************************************************************************)
(* Pure helpers of the loop.                                               *)
(***************************************************************************)
_utc_minute_of_day(t) == (t \div MsPerMinute) % MinutesPerDay

utc_day(t) == t \div (MsPerMinute * MinutesPerDay)

ZeroFrac == [num |-> 0, den |-> 1]

\* max(0.0, (peak - balance) / peak) as an exact fraction
DrawdownFrac(peak, balance) == [num |-> Max(0, peak - balance), den |-> peak]

\* daily_drawdown_frac >= daily_drawdown_blocker_pct / 100.0
DrawdownReached(frac) == frac.num * 100 >= daily_drawdown_blocker_pct * frac.den

NewRisk == [daily_balance_day |-> None,
            daily_start_balance |-> None,
            daily_peak_balance |-> None,
            daily_last_balance |-> None,
            daily_drawdown_frac |-> ZeroFrac,
            daily_drawdown_blocked |-> FALSE,
            effective_order_notional |-> None]

\* the reset at a change of UTC day (order_notional is not given: default None)
DayReset(r, day) ==
    IF Some(day) # r.daily_balance_day
    THEN [NewRisk EXCEPT !.daily_balance_day = Some(day)]
    ELSE r

NonStickyBlocked(blocked, frac) == DrawdownReached(frac)

\* the blocked flag after a balance read gave drawdown frac
NextBlocked(blocked, frac) ==
    IF (~blocked) /\ DrawdownReached(frac) THEN TRUE ELSE blocked

\* the tracker update for one balance read (None or <= 0: nothing changes)
BalanceUpdate(r, balance_now) ==
    IF balance_now # None /\ Val(balance_now) > 0
    THEN LET b == Val(balance_now)
             start == IF r.daily_start_balance = None THEN Some(b) ELSE r.daily_start_balance
             notional == IF r.daily_start_balance = None
                         THEN Some(b * risk_pct * target_leverage)   \* in 1/100 USD
                         ELSE r.effective_order_notional
             peak == IF r.daily_peak_balance = None \/ b > Val(r.daily_peak_balance)
                     THEN b ELSE Val(r.daily_peak_balance)
             frac == DrawdownFrac(peak, b)
         IN [r EXCEPT !.daily_last_balance = Some(b),
                      !.daily_start_balance = start,
                      !.effective_order_notional = notional,
                      !.daily_peak_balance = Some(peak),
                      !.daily_drawdown_frac = frac,
                      !.daily_drawdown_blocked = NextBlocked(r.daily_drawdown_blocked, frac)]
    ELSE r

NoEvent == [sym |-> "", branch |-> "none", orders |-> << >>, cancels |-> {},
            records |-> << >>, live_qty |-> None, safety |-> None,
            entry_query |-> "none", entry_fill |-> 0, close_ok |-> FALSE,
            close_fill |-> 0, raised |-> FALSE, gate |-> "", due |-> FALSE,
            detect |-> None, acct |-> None]

(***************************************************************************)
(* Initial state: the variables set up before the while loop.              *)
(***************************************************************************)
\* the state before the first iteration, for the schedules given
LoopStart(schedules) ==
    /\ cfg \in { [enable_trading |-> e, entry_halt_min |-> s.entry_halt_min,
                  force_exit_min |-> s.force_exit_min] :
                 e \in BOOLEAN, s \in schedules }
    /\ pc = "loop"
    /\ sym_idx = 1
    /\ ts_ms = StartMs
    /\ positions = [s \in Symbols |-> None]
    /\ trade_trackers = [s \in Symbols |-> None]
    /\ cooldown_until_ms = [s \in Symbols |-> 0]
    /\ last_force_exit_attempt_ms = [s \in Symbols |-> 0]
    /\ risk = NewRisk
    /\ ex_position_amt = [s \in Symbols |-> 0]
    /\ ex_open_orders = [s \in Symbols |-> {}]
    /\ ex_last_fired = [s \in Symbols |-> ""]
    /\ n_poll_snapshots = 0
    /\ ev = NoEvent
    /\ last_forced_close_ms = [s \in Symbols |-> None]
    /\ last_close_ms = [s \in Symbols |-> None]

LoopInit == LoopStart(Schedules)

\* nothing computed yet
NoLevels == [stage |-> "idle"]

\* no sizing call made yet
NoSizing == [stage |-> "idle"]

\* no Strategy constructed
NoStrategy == [stage |-> "idle"]

\* no entry attempt followed
NoTouch == [stage |-> "idle"]

\* no TradeTracker followed
NoTracker == [stage |-> "idle"]

\* no signal evaluated
NoSignal == [stage |-> "idle"]

\* no triggers armed
NoArming == [stage |-> "idle"]

\* no trade finalized
NoPnl == [stage |-> "idle"]

\* the loop's way out is not followed
NoShutdown == [stage |-> "idle"]

\* no stream subscribed, no snapshot taken
NoFeed == [stage |-> "idle"]

\* AsterClient.__init__: empty trade buffer, nothing received
NoTrades == [ recent_agg_trades |-> << >>, received |-> 0, last_etype |-> "" ]

\* AsterClient.__init__: no kline seen, empty bucket, no derived bar
NoKlines == [ latest_kline_1m |-> None,
              _kline_bucket |-> << >>,
              derived_10m_bars |-> << >>,
              closed_bars |-> << >> ]     \* observation: the closed 1m bars in arrival order

AuxInit ==
    /\ exit_levels = NoLevels
    /\ sizing = NoSizing
    /\ strat = NoStrategy
    /\ klines = NoKlines
    /\ trades = NoTrades
    /\ feed = NoFeed
    /\ shutdown = NoShutdown
    /\ pnl = NoPnl
    /\ arming = NoArming
    /\ signal = NoSignal
    /\ lifetime = NoTracker
    /\ touch = NoTouch

Init == LoopInit /\ AuxInit

(***************************************************************************)
(* Top of one iteration: tick time, UTC-day reset, drawdown tracker.       *)
(***************************************************************************)
LoopTop ==
    /\ pc = "loop"
    /\ \E gap \in TickGaps, balance_now \in BalanceReads :
        /\ n_poll_snapshots < MaxPolls
        /\ ts_ms' = ts_ms + gap
        /\ risk' = IF HasOrderPlacer
                   THEN BalanceUpdate(DayReset(risk, utc_day(ts_ms + gap)), balance_now)
                   ELSE risk
        /\ ev' = [NoEvent EXCEPT !.branch = "top"]
    /\ pc' = "symbols"
    /\ sym_idx' = 1
    /\ UNCHANGED << aux_vars, cfg, n_poll_snapshots, positions, trade_trackers, cooldown_until_ms,
                    last_force_exit_attempt_ms, ex_position_amt, ex_open_orders,
                    ex_last_fired, last_forced_close_ms, last_close_ms >>

\* the while condition fails: run-time limit reached or stop flag set
LoopExit ==
    /\ pc = "loop"
    /\ pc' = "stopped"
    /\ ev' = [NoEvent EXCEPT !.branch = "exit"]
    /\ UNCHANGED << aux_vars, cfg, sym_idx, ts_ms, n_poll_snapshots, positions, trade_trackers,
                    cooldown_until_ms, last_force_exit_attempt_ms, risk, ex_position_amt, ex_open_orders,
                    ex_last_fired, last_forced_close_ms, last_close_ms >>

(***************************************************************************)
(* The exchange as seen through OrderPlacer's REST wrappers.  Which        *)
(* response a call gets is an input of the step that makes the call.       *)
(***************************************************************************)
OrderOutcomes == { "accepted", "rejected" }      \* rejected: ClientError raised

QueryOutcomes == { "ok", "fail" }                \* fail: ClientError raised

EntryQueryOutcomes == { "ok", "fail", "no_avg" } \* no_avg: reply without avgPrice

get_position_amt(sym, outcome) ==
    IF outcome = "fail" THEN None ELSE Some(ex_position_amt[sym])

get_position_abs_qty(sym, outcome) ==
    LET amt == get_position_amt(sym, outcome)
    IN IF amt = None THEN None ELSE Some(Abs(Val(amt)))

\* safety multiple as the pair (mb, mm); None when undefined
_get_margin_safety_multiple_total_usdt(acct) ==
    IF acct = None THEN None
    ELSE IF Val(acct).mb <= 0 THEN None
    ELSE IF Val(acct).mm <= 0 THEN None
    ELSE acct

\* safety_multiple > 0 and safety_multiple <= margin_safety_multiple_min
MarginBreached(safety) ==
    /\ safety # None
    /\ Val(safety).mb * margin_safety_multiple_den
         <= margin_safety_multiple_num * Val(safety).mm

CloseSide(pos) == IF pos.side = "BUY" THEN "SELL" ELSE "BUY"

\* what a reduce-only order of this side and size can take off the position
ReduceOnlyFillable(amt, side, qty) ==
    IF side = "SELL" /\ amt > 0 THEN Min(qty, amt)
    ELSE IF side = "BUY" /\ amt < 0 THEN Min(qty, 0 - amt)
    ELSE 0

AmtAfterFill(amt, side, f) == IF side = "BUY" THEN amt + f ELSE amt - f

Order(type, side, qty, reduceOnly, tag) ==
    [type |-> type, side |-> side, qty |-> qty, reduceOnly |-> reduceOnly, tag |-> tag]

PositionState(side, qty) ==
    [side |-> side, qty |-> qty,
     take_profit_order_id |-> None,
     stop_loss_order_id |-> None,
     trailing_stop_order_id |-> None]

\* the position close_position() hands to _close_position()
PosToClose(pos, live_amt) ==
    IF live_amt # None /\ Abs(Val(live_amt)) > 0
    THEN [pos EXCEPT !.side = IF Val(live_amt) > 0 THEN "BUY" ELSE "SELL",
                     !.qty = Abs(Val(live_amt))]
    ELSE pos

CloseOk(filled_qty) == filled_qty > 0

\* ExitResult of _close_position for the responses to the order and to its query
_close_position(pos, reason, order_outcome, fill, query_outcome) ==
    IF order_outcome = "rejected"
    THEN [ok |-> FALSE, reason |-> "ERROR", closed_qty |-> 0]
    ELSE LET filled_qty == IF query_outcome = "ok" THEN fill ELSE 0
         IN [ok |-> CloseOk(filled_qty), reason |-> reason, closed_qty |-> filled_qty]

SiblingIds(pos) ==
    { Val(i) : i \in { pos.take_profit_order_id, pos.stop_loss_order_id,
                       pos.trailing_stop_order_id } \ { None } }

_map_exit_reason(r) ==
    CASE r = "MARGIN_KILL" -> "MARGIN"
      [] r = "TAKE_PROFIT_MARKET" -> "TP"
      [] r = "TRAILING_STOP_MARKET" -> "TSL"
      [] r = "STOP_MARKET" -> "SL"
      [] r = "" -> "UNKNOWN"
      [] OTHER -> r

UntrackedTradeRecords(tracker, exit_reason) ==
    IF tracker = None THEN << _map_exit_reason(exit_reason) >> ELSE << >>

\* "if tracker is not None: _finalize_trade(...)": the rows appended to the trade log
TradeRecords(tracker, exit_reason) ==
    IF tracker # None THEN << _map_exit_reason(exit_reason) >> ELSE << >>

\* which of the armed orders of pos filled; None when that cannot be told
detect_filled_exit_order(pos, fired, outcome) ==
    IF outcome = "ok" /\ fired \in SiblingIds(pos) THEN Some(fired) ELSE None

(***************************************************************************)
(* Decisions of the for-loop body.                                         *)
(***************************************************************************)
NoPosition(pos) == FALSE

HasPosition(pos) == pos # None

CutoffReached(t) == _utc_minute_of_day(t) >= cfg.force_exit_min

ForceExitDue(t, last_attempt) == t - last_attempt >= ForceExitRetryMs

ExchangeShort(live_qty) == live_qty # None /\ Val(live_qty) < 0

\* live_qty is not None and live_qty <= 0
ExchangeFlat(live_qty) == live_qty # None /\ Val(live_qty) <= 0

\* detect.get("reason") or "UNKNOWN"
ExitReasonOf(detect) == IF detect = None THEN "UNKNOWN" ELSE Val(detect)

CutoffFirstPath(blocked, cutoff, live_qty, safety) ==
    IF cutoff THEN "cutoff_close"
    ELSE IF blocked THEN "dd_close"
    ELSE IF ExchangeFlat(live_qty) THEN "exchange_flat"
    ELSE IF MarginBreached(safety) THEN "margin_kill"
    ELSE "hold"

\* the exit path a tick takes for a symbol with a PositionState
OpenPositionPath(blocked, cutoff, live_qty, safety) ==
    IF blocked THEN "dd_close"
    ELSE IF cutoff THEN "cutoff_close"
    ELSE IF ExchangeFlat(live_qty) THEN "exchange_flat"
    ELSE IF MarginBreached(safety) THEN "margin_kill"
    ELSE "hold"

UnblockedFlatPath(blocked, cutoff, live_amt) ==
    IF cutoff /\ live_amt # None /\ Abs(Val(live_amt)) > 0 THEN "resid_cutoff"
    ELSE "entry_gates"

\* the branch a tick takes for a symbol without a PositionState
FlatPath(blocked, cutoff, live_amt) ==
    IF blocked
    THEN (IF live_amt # None /\ Abs(Val(live_amt)) > 0 THEN "resid_dd" ELSE "blocked")
    ELSE IF cutoff /\ live_amt # None /\ Abs(Val(live_amt)) > 0 THEN "resid_cutoff"
    ELSE "entry_gates"

NoCooldown(t, until) == FALSE

CooldownActive(t, until) == t < until

\* the first gate that stops an entry, "" when none does
EntryGate(enter, t, until, live_qty, notional, bbo_ok, order_qty) ==
    IF ~enter THEN "no_signal"
    ELSE IF _utc_minute_of_day(t) >= cfg.entry_halt_min THEN "entry_halt"
    ELSE IF CooldownActive(t, until) THEN "cooldown"
    ELSE IF live_qty # None /\ Val(live_qty) > 0 THEN "exchange_open"
    ELSE IF notional = None \/ Val(notional) <= 0 THEN "no_notional"
    ELSE IF ~bbo_ok THEN "no_bbo"
    ELSE IF order_qty = None THEN "qty_failed"
    ELSE ""

CooldownSeconds(t) == t + reentry_cooldown_min * MsPerSecond

CooldownUntil(t) == t + reentry_cooldown_min * MsPerMinute

AnyFill(taker_filled_qty, taker_avg_px) == taker_filled_qty >= 0

\* the negation of the "Entry failed (no fills)" test of entry()
EntryFilled(taker_filled_qty, taker_avg_px) ==
    ~(taker_filled_qty <= 0 \/ taker_avg_px = None \/ Val(taker_avg_px) <= 0)

AdvanceSym ==
    IF sym_idx < Len(SymbolList)
    THEN pc' = "symbols" /\ sym_idx' = sym_idx + 1 /\ UNCHANGED n_poll_snapshots
    ELSE pc' = "loop" /\ sym_idx' = 1 /\ n_poll_snapshots' = n_poll_snapshots + 1

CurSym == SymbolList[sym_idx]

StepEvent(sym, branch) ==
    [NoEvent EXCEPT !.sym = sym, !.branch = branch]

\* enable_trading is false: order_placer is None and the body continues at once
StepTradingDisabled ==
    /\ pc = "symbols"
    /\ ~HasOrderPlacer
    /\ ev' = StepEvent(CurSym, "disabled")
    /\ AdvanceSym
    /\ UNCHANGED << aux_vars, cfg, ts_ms, positions, trade_trackers, cooldown_until_ms,
                    last_force_exit_attempt_ms, risk, ex_position_amt, ex_open_orders,
                    ex_last_fired, last_forced_close_ms, last_close_ms >>

\* cancel_sibling_exit_orders: the armed orders left after the cancels of pos's ids
AfterCancel(open_orders, pos) ==
    { o \in open_orders : o.type \notin SiblingIds(pos) }

KeepTracker(trackers, sym) == trackers

\* trade_trackers.pop(sym, None)
PopTracker(trackers, sym) == [trackers EXCEPT ![sym] = None]

\* _close_position() for a position the loop tracks, and the bookkeeping of
\* "if exit_res.ok:" that follows it on the drawdown, cutoff and margin paths
TrackedClose(sym, pos, pos_to_close, reason, e0) ==
    \E oo \in OrderOutcomes, qo \in QueryOutcomes, f \in 0..MaxExPos :
        /\ f <= ReduceOnlyFillable(ex_position_amt[sym], CloseSide(pos_to_close), pos_to_close.qty)
        /\ oo = "rejected" => (f = 0 /\ qo = "ok")
        /\ LET res == _close_position(pos_to_close, reason, oo, f, qo)
               order == Order("MARKET", CloseSide(pos_to_close), pos_to_close.qty, TRUE, reason)
               e1 == [e0 EXCEPT !.orders = << order >>, !.close_fill = f, !.close_ok = res.ok]
           IN /\ ex_position_amt' = [ex_position_amt EXCEPT
                                        ![sym] = AmtAfterFill(@, CloseSide(pos_to_close), f)]
              /\ last_forced_close_ms' = [last_forced_close_ms EXCEPT ![sym] = Some(ts_ms)]
              /\ IF res.ok
                 THEN /\ positions' = [positions EXCEPT ![sym] = None]
                      /\ trade_trackers' = PopTracker(trade_trackers, sym)
                      /\ cooldown_until_ms' = [cooldown_until_ms EXCEPT ![sym] = CooldownUntil(ts_ms)]
                      /\ ex_open_orders' = [ex_open_orders EXCEPT ![sym] = AfterCancel(@, pos)]
                      /\ last_close_ms' = [last_close_ms EXCEPT ![sym] = Some(ts_ms)]
                      /\ ev' = [e1 EXCEPT !.cancels = SiblingIds(pos),
                                          !.records = TradeRecords(trade_trackers[sym], res.reason)]
                 ELSE /\ ev' = e1
                      /\ UNCHANGED << positions, trade_trackers, cooldown_until_ms,
                                      ex_open_orders, last_close_ms >>

\* the throttled close_position() of the drawdown and cutoff paths (lines 569-634)
ThrottledTrackedClose(sym, path, reason) ==
    LET pos == Val(positions[sym])
        e0 == StepEvent(sym, path)
    IN IF ForceExitDue(ts_ms, last_force_exit_attempt_ms[sym])
       THEN /\ last_force_exit_attempt_ms' = [last_force_exit_attempt_ms EXCEPT ![sym] = ts_ms]
            /\ \E pq \in QueryOutcomes :
                 TrackedClose(sym, pos, PosToClose(pos, get_position_amt(sym, pq)), reason,
                              [e0 EXCEPT !.due = TRUE])
       ELSE /\ ev' = e0
            /\ UNCHANGED << positions, trade_trackers, cooldown_until_ms,
                            last_force_exit_attempt_ms, ex_position_amt, ex_open_orders,
                            last_forced_close_ms, last_close_ms >>

\* guard shared by the steps for a symbol that has a PositionState
OpenStep(sym, path, lq, acct) ==
    /\ pc = "symbols"
    /\ HasOrderPlacer
    /\ sym = CurSym
    /\ HasPosition(positions[sym])
    /\ OpenPositionPath(risk.daily_drawdown_blocked, CutoffReached(ts_ms), lq,
                        _get_margin_safety_multiple_total_usdt(acct)) = path

StepDrawdownClose ==
    \E sym \in Symbols :
        /\ OpenStep(sym, "dd_close", None, None)
        /\ ThrottledTrackedClose(sym, "dd_close", "DAILY_DRAWDOWN_BLOCK")
        /\ AdvanceSym
        /\ UNCHANGED << aux_vars, cfg, ts_ms, risk, ex_last_fired >>

StepCutoffClose ==
    \E sym \in Symbols :
        /\ OpenStep(sym, "cutoff_close", None, None)
        /\ ThrottledTrackedClose(sym, "cutoff_close", "DAILY_CUTOFF")
        /\ AdvanceSym
        /\ UNCHANGED << aux_vars, cfg, ts_ms, risk, ex_last_fired >>

\* the exchange reports a zero position for a tracked symbol (lines 636-658)
StepExchangeFlat ==
    \E sym \in Symbols, pq \in QueryOutcomes, dq \in QueryOutcomes :
        /\ OpenStep(sym, "exchange_flat", get_position_abs_qty(sym, pq), None)
        /\ LET pos == Val(positions[sym])
               detect == detect_filled_exit_order(pos, ex_last_fired[sym], dq)
               exit_reason == ExitReasonOf(detect)
           IN /\ ev' = [StepEvent(sym, "exchange_flat") EXCEPT
                           !.live_qty = get_position_abs_qty(sym, pq),
                           !.detect = detect,
                           !.cancels = SiblingIds(pos),
                           !.records = TradeRecords(trade_trackers[sym], exit_reason)]
              /\ ex_open_orders' = [ex_open_orders EXCEPT ![sym] = AfterCancel(@, pos)]
        /\ positions' = [positions EXCEPT ![sym] = None]
        /\ trade_trackers' = PopTracker(trade_trackers, sym)
        /\ cooldown_until_ms' = [cooldown_until_ms EXCEPT ![sym] = CooldownUntil(ts_ms)]
        /\ last_close_ms' = [last_close_ms EXCEPT ![sym] = Some(ts_ms)]
        /\ AdvanceSym
        /\ UNCHANGED << aux_vars, cfg, ts_ms, risk, last_force_exit_attempt_ms, ex_position_amt,
                        ex_last_fired, last_forced_close_ms >>

\* maybe_exit() finds the safety multiple at or below the minimum (lines 660-689)
StepMarginKill ==
    \E sym \in Symbols, pq \in QueryOutcomes, acct \in AccountReads :
        /\ OpenStep(sym, "margin_kill", get_position_abs_qty(sym, pq), acct)
        /\ TrackedClose(sym, Val(positions[sym]), Val(positions[sym]), "MARGIN_KILL",
                        [StepEvent(sym, "margin_kill") EXCEPT
                            !.live_qty = get_position_abs_qty(sym, pq),
                            !.acct = acct,
                            !.safety = _get_margin_safety_multiple_total_usdt(acct)])
        /\ AdvanceSym
        /\ UNCHANGED << aux_vars, cfg, ts_ms, risk, last_force_exit_attempt_ms, ex_last_fired >>

\* maybe_exit() returns None: the position is kept
StepHold ==
    \E sym \in Symbols, pq \in QueryOutcomes, acct \in AccountReads :
        /\ OpenStep(sym, "hold", get_position_abs_qty(sym, pq), acct)
        /\ ev' = [StepEvent(sym, "hold") EXCEPT
                     !.live_qty = get_position_abs_qty(sym, pq),
                     !.acct = acct,
                     !.safety = _get_margin_safety_multiple_total_usdt(acct)]
        /\ AdvanceSym
        /\ UNCHANGED << aux_vars, cfg, ts_ms, positions, trade_trackers, cooldown_until_ms,
                        last_force_exit_attempt_ms, risk, ex_position_amt, ex_open_orders,
                        ex_last_fired, last_forced_close_ms, last_close_ms >>

\* guard shared by the steps for a symbol that has no PositionState
FlatStep(sym, path, live_amt) ==
    /\ pc = "symbols"
    /\ HasOrderPlacer
    /\ sym = CurSym
    /\ ~HasPosition(positions[sym])
    /\ FlatPath(risk.daily_drawdown_blocked, CutoffReached(ts_ms), live_amt) = path

\* the throttled close of a position the loop holds no state for (lines 691-748)
ResidualClose(sym, path, reason, live_amt) ==
    LET e0 == StepEvent(sym, path)
        temp_pos == PositionState(IF Val(live_amt) > 0 THEN "BUY" ELSE "SELL", Abs(Val(live_amt)))
    IN IF ForceExitDue(ts_ms, last_force_exit_attempt_ms[sym])
       THEN /\ last_force_exit_attempt_ms' = [last_force_exit_attempt_ms EXCEPT ![sym] = ts_ms]
            /\ \E pq \in QueryOutcomes, oo \in OrderOutcomes, qo \in QueryOutcomes,
                  f \in 0..MaxExPos :
                 LET pos_to_close == PosToClose(temp_pos, get_position_amt(sym, pq))
                     res == _close_position(pos_to_close, reason, oo, f, qo)
                     order == Order("MARKET", CloseSide(pos_to_close), pos_to_close.qty,
                                    TRUE, reason)
                 IN /\ f <= ReduceOnlyFillable(ex_position_amt[sym], CloseSide(pos_to_close),
                                               pos_to_close.qty)
                    /\ oo = "rejected" => (f = 0 /\ qo = "ok")
                    /\ ex_position_amt' = [ex_position_amt EXCEPT
                                              ![sym] = AmtAfterFill(@, CloseSide(pos_to_close), f)]
                    /\ last_forced_close_ms' = [last_forced_close_ms EXCEPT ![sym] = Some(ts_ms)]
                    /\ cooldown_until_ms' = IF res.ok
                                            THEN [cooldown_until_ms EXCEPT ![sym] = CooldownUntil(ts_ms)]
                                            ELSE cooldown_until_ms
                    /\ last_close_ms' = IF res.ok
                                        THEN [last_close_ms EXCEPT ![sym] = Some(ts_ms)]
                                        ELSE last_close_ms
                    /\ ev' = [e0 EXCEPT !.orders = << order >>, !.close_fill = f,
                                        !.close_ok = res.ok, !.due = TRUE]
       ELSE /\ ev' = e0
            /\ UNCHANGED << cooldown_until_ms, last_force_exit_attempt_ms, ex_position_amt,
                            last_forced_close_ms, last_close_ms >>

StepResidualDrawdownClose ==
    \E sym \in Symbols, pq \in QueryOutcomes :
        /\ FlatStep(sym, "resid_dd", get_position_amt(sym, pq))
        /\ ResidualClose(sym, "resid_dd", "DAILY_DRAWDOWN_BLOCK", get_position_amt(sym, pq))
        /\ AdvanceSym
        /\ UNCHANGED << aux_vars, cfg, ts_ms, positions, trade_trackers, risk, ex_open_orders,
                        ex_last_fired >>

StepResidualCutoffClose ==
    \E sym \in Symbols, pq \in QueryOutcomes :
        /\ FlatStep(sym, "resid_cutoff", get_position_amt(sym, pq))
        /\ ResidualClose(sym, "resid_cutoff", "DAILY_CUTOFF", get_position_amt(sym, pq))
        /\ AdvanceSym
        /\ UNCHANGED << aux_vars, cfg, ts_ms, positions, trade_trackers, risk, ex_open_orders,
                        ex_last_fired >>

\* [ENTRY_BLOCKED] daily_drawdown_blocker active (lines 717-724)
StepEntryBlockedByDrawdown ==
    \E sym \in Symbols, pq \in QueryOutcomes :
        /\ FlatStep(sym, "blocked", get_position_amt(sym, pq))
        /\ ev' = StepEvent(sym, "blocked")
        /\ AdvanceSym
        /\ UNCHANGED << aux_vars, cfg, ts_ms, positions, trade_trackers, cooldown_until_ms,
                        last_force_exit_attempt_ms, risk, ex_position_amt, ex_open_orders,
                        ex_last_fired, last_forced_close_ms, last_close_ms >>

OrderQtys == { None } \cup { Some(q) : q \in 1..MaxQty }

\* one of the gates of lines 750-795 stops the entry
StepEntrySkipped ==
    \E sym \in Symbols, pq1 \in QueryOutcomes, pq2 \in QueryOutcomes, enter \in BOOLEAN,
       bbo_ok \in BOOLEAN, order_qty \in OrderQtys :
        LET gate == EntryGate(enter, ts_ms, cooldown_until_ms[sym],
                              get_position_abs_qty(sym, pq2),
                              risk.effective_order_notional, bbo_ok, order_qty)
        IN /\ FlatStep(sym, "entry_gates", get_position_amt(sym, pq1))
           /\ gate # ""
           /\ ev' = [StepEvent(sym, "entry_skipped") EXCEPT !.gate = gate]
           /\ AdvanceSym
           /\ UNCHANGED << aux_vars, cfg, ts_ms, positions, trade_trackers, cooldown_until_ms,
                           last_force_exit_attempt_ms, risk, ex_position_amt, ex_open_orders,
                           ex_last_fired, last_forced_close_ms, last_close_ms >>

\* the first n trigger orders of place_exit_triggers, as the exchange holds them
ArmedTriggers(n, close_side, qty) ==
    { [type |-> TriggerTypes[i], side |-> close_side, qty |-> qty] : i \in 1..n }

PlainTriggerOrders(n, close_side, qty) ==
    [i \in 1..n |-> Order(TriggerTypes[i], close_side, qty, FALSE, "EXIT_ARM")]

\* the first n orders place_exit_triggers submits (the last may be rejected)
TriggerOrders(n, close_side, qty) ==
    [i \in 1..n |-> Order(TriggerTypes[i], close_side, qty, TRUE, "EXIT_ARM")]

\* all gates pass: entry() submits the IOC order (lines 797-828, order.py 243-385)
StepEntry ==
    \E sym \in Symbols, pq1 \in QueryOutcomes, pq2 \in QueryOutcomes, side \in Sides,
       order_qty \in OrderQtys, io \in OrderOutcomes, qo \in EntryQueryOutcomes,
       f \in 0..MaxQty, n_ok \in 0..3 :
        /\ FlatStep(sym, "entry_gates", get_position_amt(sym, pq1))
        /\ EntryGate(TRUE, ts_ms, cooldown_until_ms[sym], get_position_abs_qty(sym, pq2),
                     risk.effective_order_notional, TRUE, order_qty) = ""
        /\ f <= Val(order_qty)
        /\ io = "rejected" => (f = 0 /\ qo = "ok")
        /\ Abs(AmtAfterFill(ex_position_amt[sym], side, f)) <= MaxExPos
        /\ LET taker_filled_qty == IF io = "accepted" /\ qo # "fail" THEN f ELSE 0
               taker_avg_px == IF io = "accepted" /\ qo = "ok"
                               THEN Some(IF f > 0 THEN 1 ELSE 0) ELSE None
               filled == io = "accepted" /\ EntryFilled(taker_filled_qty, taker_avg_px)
               pos == PositionState(side, taker_filled_qty)
               close_side == CloseSide(pos)
               n_sub == IF filled THEN Min(n_ok + 1, 3) ELSE 0
               n_acc == IF filled THEN n_ok ELSE 0
               e0 == [StepEvent(sym, "entry") EXCEPT
                         !.orders = << Order("LIMIT", side, Val(order_qty), FALSE, "ENTRY") >>
                                    \o TriggerOrders(n_sub, close_side, taker_filled_qty),
                         !.live_qty = get_position_abs_qty(sym, pq2),
                         !.entry_query = IF io = "rejected" THEN "rejected" ELSE qo,
                         !.entry_fill = f,
                         !.raised = filled /\ n_ok < 3]
           IN /\ (~filled) => n_ok = 3
              /\ ev' = e0
              /\ ex_position_amt' = [ex_position_amt EXCEPT ![sym] = AmtAfterFill(@, side, f)]
              /\ ex_open_orders' = [ex_open_orders EXCEPT
                                       ![sym] = @ \cup ArmedTriggers(n_acc, close_side, taker_filled_qty)]
              /\ ex_last_fired' = IF filled THEN [ex_last_fired EXCEPT ![sym] = ""]
                                  ELSE ex_last_fired
              /\ IF filled /\ n_ok < 3
                 THEN \* a rejected trigger raises ClientError out of entry() and of the loop
                      /\ pc' = "stopped"
                      /\ UNCHANGED << sym_idx, n_poll_snapshots, positions, trade_trackers >>
                 ELSE /\ AdvanceSym
                      /\ positions' = IF filled
                                      THEN [positions EXCEPT ![sym] =
                                              Some([pos EXCEPT
                                                 !.take_profit_order_id = Some(TriggerTypes[1]),
                                                 !.stop_loss_order_id = Some(TriggerTypes[2]),
                                                 !.trailing_stop_order_id = Some(TriggerTypes[3])])]
                                      ELSE positions
                      /\ trade_trackers' = IF filled
                                           THEN [trade_trackers EXCEPT ![sym] =
                                                   Some([fill_quantity |-> taker_filled_qty,
                                                         entry_send_time_ms |-> ts_ms])]
                                           ELSE trade_trackers
        /\ UNCHANGED << aux_vars, cfg, ts_ms, cooldown_until_ms, last_force_exit_attempt_ms, risk,
                        last_forced_close_ms, last_close_ms >>

\* the exchange fills one of the armed reduce-only trigger orders (between two
\* iterations: the loop reads the exchange only inside the for body)
TriggerFires ==
    \E sym \in Symbols : \E o \in ex_open_orders[sym] :
        /\ pc = "loop"
        /\ ReduceOnlyFillable(ex_position_amt[sym], o.side, o.qty) > 0
        /\ ex_position_amt' = [ex_position_amt EXCEPT
               ![sym] = AmtAfterFill(@, o.side, ReduceOnlyFillable(@, o.side, o.qty))]
        /\ ex_open_orders' = [ex_open_orders EXCEPT ![sym] = @ \ { o }]
        /\ ex_last_fired' = [ex_last_fired EXCEPT ![sym] = o.type]
        /\ UNCHANGED << aux_vars, cfg, pc, sym_idx, ts_ms, positions, trade_trackers, cooldown_until_ms,
                        last_force_exit_attempt_ms, risk, n_poll_snapshots, ev,
                        last_forced_close_ms, last_close_ms >>

Next ==
    \/ LoopTop
    \/ LoopExit
    \/ StepTradingDisabled
    \/ StepDrawdownClose
    \/ StepCutoffClose
    \/ StepExchangeFlat
    \/ StepMarginKill
    \/ StepHold
    \/ StepResidualDrawdownClose
    \/ StepResidualCutoffClose
    \/ StepEntryBlockedByDrawdown
    \/ StepEntrySkipped
    \/ StepEntry
    \/ TriggerFires

Spec == Init /\ [][Next]_vars

(***************************************************************************)
(* The daily drawdown tracker on its own (main.py lines 472-521), under a  *)
(* wider choice of balance reads.                                          *)
(***************************************************************************)
MaxRiskPolls == 5

RiskBalanceReads == { None, Some(0), Some(940), Some(950), Some(980), Some(1000), Some(1100) }

InitRisk == Init /\ cfg.enable_trading

RiskPoll ==
    /\ pc = "loop"
    /\ n_poll_snapshots < MaxRiskPolls
    /\ \E gap \in TickGaps, balance_now \in RiskBalanceReads :
        /\ ts_ms' = ts_ms + gap
        /\ risk' = BalanceUpdate(DayReset(risk, utc_day(ts_ms + gap)), balance_now)
    /\ n_poll_snapshots' = n_poll_snapshots + 1
    /\ UNCHANGED << aux_vars, cfg, pc, sym_idx, positions, trade_trackers, cooldown_until_ms,
                    last_force_exit_attempt_ms, ex_position_amt, ex_open_orders,
                    ex_last_fired, ev, last_forced_close_ms, last_close_ms >>

SpecRisk == InitRisk /\ [][RiskPoll]_vars

(***************************************************************************)
(* Properties of the control loop.                                         *)
(***************************************************************************)
Blocked == risk.daily_drawdown_blocked

ForcedCloseReasons == { "DAILY_DRAWDOWN_BLOCK", "DAILY_CUTOFF", "MARGIN_KILL" }

OrderTypes(e) == { e.orders[i].type : i \in 1..Len(e.orders) }

OrderTags(e) == { e.orders[i].tag : i \in 1..Len(e.orders) }

EntrySubmitted(e) == "ENTRY" \in OrderTags(e)

ForcedCloseSubmitted(e) == OrderTags(e) \cap ForcedCloseReasons # {}

\* a step of the for body is being taken (the exchange acts only between iterations)
InBody == pc = "symbols"

\* C1: at most one PositionState per symbol: an entry order is submitted for a
\* symbol only in a tick in which the loop holds no PositionState for it, so a
\* PositionState is never stored over a live one.
C1_NoEntryWhileOpen ==
    [][(InBody /\ EntrySubmitted(ev')) => positions[CurSym] = None]_vars

\* a tick passed over a symbol whose PositionState is open and kept it
C1_Witness ==
    /\ ev.branch = "hold"
    /\ positions[ev.sym] # None
    /\ ~EntrySubmitted(ev)

\* C2: while the loop runs, whenever the exchange holds a non-zero position
\* (all positions of the model are opened by entry orders of the loop), the
\* loop holds a PositionState for that symbol.
C2_ExchangePositionTracked ==
    pc # "stopped" =>
        \A s \in Symbols : ex_position_amt[s] # 0 => positions[s] # None

\* C3: every entry whose IOC order is reported filled submits all three exit
\* triggers, whatever the exchange answers to the earlier ones.
C3_AllTriggersSubmitted ==
    (ev.branch = "entry" /\ ev.entry_query = "ok" /\ ev.entry_fill > 0)
        => { TriggerTypes[i] : i \in 1..3 } \subseteq OrderTypes(ev)

\* C4: no entry order is submitted in a tick in which the drawdown flag is set.
C4_NoEntryWhileBlocked ==
    EntrySubmitted(ev) => ~Blocked

\* the tick found the flag set for a flat symbol and went no further
C4_Witness ==
    /\ ev.branch = "blocked"
    /\ Blocked
    /\ positions[ev.sym] = None

\* C5: the flag is set by the first balance read of a UTC day whose drawdown
\* from the running peak reaches the threshold (and by nothing else), and once
\* set it stays set until the UTC day changes, whatever is read later.
C5_DrawdownBlockSticky ==
    /\ [](DrawdownReached(risk.daily_drawdown_frac) => Blocked)
    /\ [][(Blocked /\ risk'.daily_balance_day = risk.daily_balance_day)
            => risk'.daily_drawdown_blocked]_vars
    /\ [][((~Blocked) /\ risk'.daily_drawdown_blocked)
            => DrawdownReached(risk'.daily_drawdown_frac)]_vars

\* peak 1000, balance 950 set the flag; the balance is back at 980 and it is still set
C5_Witness ==
    /\ Blocked
    /\ risk.daily_peak_balance = Some(1000)
    /\ risk.daily_last_balance = Some(980)
    /\ ~DrawdownReached(risk.daily_drawdown_frac)

\* C6: for a symbol with a PositionState the tick takes the first of the paths
\* drawdown close, cutoff close, exchange-flat reconciliation, margin kill
\* whose condition holds, and never one below it.
C6_ExitPathPriority ==
    /\ ev.branch = "dd_close" => Blocked
    /\ ev.branch = "cutoff_close" => (~Blocked /\ CutoffReached(ts_ms))
    /\ ev.branch = "exchange_flat" =>
          (~Blocked /\ ~CutoffReached(ts_ms) /\ ev.live_qty = Some(0))
    /\ ev.branch = "margin_kill" =>
          (~Blocked /\ ~CutoffReached(ts_ms) /\ ev.live_qty # Some(0)
             /\ MarginBreached(ev.safety) /\ ForcedCloseSubmitted(ev))
    /\ ev.branch = "hold" =>
          (~Blocked /\ ~CutoffReached(ts_ms) /\ ev.live_qty # Some(0)
             /\ ~MarginBreached(ev.safety))

\* the flag is set and the cutoff is reached in the same tick: the drawdown
\* close is the one submitted
C6_Witness ==
    /\ ev.branch = "dd_close"
    /\ Blocked
    /\ CutoffReached(ts_ms)
    /\ "DAILY_DRAWDOWN_BLOCK" \in OrderTags(ev)

\* C7: two forced-close submissions for one symbol are at least 10 seconds of
\* tick time apart.
C7_ForcedCloseThrottled ==
    [][(InBody /\ ForcedCloseSubmitted(ev') /\ last_forced_close_ms[CurSym] # None)
         => ts_ms - Val(last_forced_close_ms[CurSym]) >= ForceExitRetryMs]_vars

EntryNotConfirmed(e) ==
    e.entry_query \in { "rejected", "fail", "no_avg" } \/ e.entry_fill = 0

\* C8: an entry whose IOC order is rejected, or whose fill is zero or unknown,
\* or whose average price is missing, leaves positions and trade_trackers as
\* they were.
C8_FailedEntryRecordsNothing ==
    [][(InBody /\ ev'.branch = "entry" /\ EntryNotConfirmed(ev'))
         => (positions' = positions /\ trade_trackers' = trade_trackers)]_vars

\* the order filled on the exchange but its average price was not reported
C8_Witness ==
    /\ ev.branch = "entry"
    /\ ev.entry_query = "no_avg"
    /\ ev.entry_fill > 0
    /\ positions[ev.sym] = None
    /\ trade_trackers[ev.sym] = None

TrackedCloseBranches == { "dd_close", "cutoff_close", "margin_kill" }

C10_NoEntryInCooldown ==
    EntrySubmitted(ev) =>
        /\ ts_ms >= cooldown_until_ms[ev.sym]
        /\ last_close_ms[ev.sym] # None =>
              ts_ms >= Val(last_close_ms[ev.sym]) + reentry_cooldown_min * MsPerMinute

\* an entry order goes out after an earlier close, once the cooldown has run out
C10_Witness ==
    /\ EntrySubmitted(ev)
    /\ last_close_ms[ev.sym] # None
    /\ cooldown_until_ms[ev.sym] > 0

\* the close order of a step (the first order the step submitted)
CloseOrder(e) == e.orders[1]

\* C11: every forced close order submitted while the exchange holds a position
\* is sized and sided from the signed amount the exchange holds: side opposite
\* to the sign, quantity equal to the absolute amount.
C11_CloseFromExchangeAmount ==
    [][(InBody /\ ForcedCloseSubmitted(ev') /\ ex_position_amt[CurSym] # 0)
         => /\ CloseOrder(ev').qty = Abs(ex_position_amt[CurSym])
            /\ CloseOrder(ev').side = (IF ex_position_amt[CurSym] > 0 THEN "SELL" ELSE "BUY")]_vars

\* C12: a tick that reaches the exchange-residual check with an open
\* PositionState, reads a zero position and cannot tell which armed order
\* filled, finalizes the trade with reason UNKNOWN in that tick, removes the
\* PositionState and the tracker and starts the cooldown.
C12_UnknownExitFinalized ==
    [][(/\ InBody
        /\ positions[CurSym] # None
        /\ ev'.live_qty = Some(0)
        /\ ev'.detect = None)
         => /\ ev'.branch = "exchange_flat"
            /\ ev'.records = << "UNKNOWN" >>
            /\ positions'[CurSym] = None
            /\ trade_trackers'[CurSym] = None
            /\ cooldown_until_ms'[CurSym] = ts_ms + reentry_cooldown_min * MsPerMinute]_vars

\* a position that went flat with no armed order filled was finalized as UNKNOWN
C12_Witness ==
    /\ ev.branch = "exchange_flat"
    /\ ev.live_qty = Some(0)
    /\ ev.detect = None
    /\ ev.records = << "UNKNOWN" >>
    /\ positions[ev.sym] = None
    /\ cooldown_until_ms[ev.sym] = ts_ms + reentry_cooldown_min * MsPerMinute

\* C13: in every step of the for body, the PositionState of the symbol is
\* removed if and only if exactly one trade record is appended in that step,
\* and no step appends more than one.
C13_OneRecordPerRemoval ==
    [][InBody => /\ Len(ev'.records) <= 1
                 /\ (positions[CurSym] # None /\ positions'[CurSym] = None)
                        <=> (Len(ev'.records) = 1)]_vars

\* a forced close of a tracked position filled: one record, PositionState gone
C13_Witness ==
    /\ ev.branch \in TrackedCloseBranches
    /\ ev.close_ok
    /\ Len(ev.records) = 1
    /\ positions[ev.sym] = None

(***************************************************************************)
(* The exit level computation of an entry tick (main.py lines 771-781).    *)
(* Levels are floats: a number, counted in eighths of a basis point, or    *)
(* NaN.  Comparisons with NaN are false, as in Python.                     *)
(***************************************************************************)
F(n) == [nan |-> FALSE, v |-> n]

NaN == [nan |-> TRUE, v |-> 0]

Bps(x) == F(8 * x)

FAdd(a, b) == IF a.nan \/ b.nan THEN NaN ELSE F(a.v + b.v)

FGt(a, b) == (~a.nan) /\ (~b.nan) /\ a.v > b.v

\* Python's max(a, b): b replaces a only when b > a
PyMax(a, b) == IF FGt(b, a) THEN b ELSE a

PyAbs(a) == IF a.nan THEN NaN ELSE F(Abs(a.v))

\* "x or 0.0" for an optional float: None and 0.0 are falsy, NaN is not
OrZero(x) == IF x = None THEN F(0)
             ELSE IF (~Val(x).nan) /\ Val(x).v = 0 THEN F(0)
             ELSE Val(x)

\* a / 8.0
FDiv8(a) == IF a.nan THEN NaN ELSE F(a.v \div 8)

\* the arguments of the computation: validated configuration (lines 397-408)
\* and the blockers / funding fields of the tick
LevelArgs ==
    [ taker_fee_bps : { Bps(0), Bps(4) },
      opening_loss_bps : { None, Some(Bps(0 - 3)), Some(Bps(0)), Some(Bps(5)), Some(NaN) },
      funding_rate_bps : { None, Some(Bps(0 - 16)), Some(Bps(1)), Some(NaN) },
      trailing_activation_bps : { Bps(8), Bps(18) },
      trailing_activation_buffer_bps : { Bps(0), Bps(2) },
      take_profit_bps : { Bps(20), Bps(30) },
      min_take_profit_gap_bps : { Bps(0), Bps(4) } ]

opening_loss_bps(a) == PyMax(F(0), OrZero(a.opening_loss_bps))

funding_bps(a) == PyAbs(OrZero(a.funding_rate_bps))

be_floor_bps(a) ==
    FAdd(FAdd(FAdd(a.taker_fee_bps, a.taker_fee_bps), opening_loss_bps(a)),
         FDiv8(funding_bps(a)))

activation_auto_bps(a) ==
    FAdd(be_floor_bps(a), PyMax(F(0), a.trailing_activation_buffer_bps))

activation_bps(a) == PyMax(a.trailing_activation_bps, activation_auto_bps(a))

tp_bps_without_gap(a) == PyMax(a.take_profit_bps, activation_bps(a))

tp_bps(a) ==
    PyMax(a.take_profit_bps,
          FAdd(activation_bps(a), PyMax(F(0), a.min_take_profit_gap_bps)))

InitLevels ==
    /\ LoopInit
    /\ cfg.enable_trading
    /\ touch = NoTouch
    /\ lifetime = NoTracker
    /\ signal = NoSignal
    /\ arming = NoArming
    /\ pnl = NoPnl
    /\ shutdown = NoShutdown
    /\ exit_levels \in { [stage |-> "args", args |-> a] : a \in LevelArgs }
    /\ sizing = NoSizing
    /\ strat = NoStrategy
    /\ klines = NoKlines
    /\ trades = NoTrades
    /\ feed = NoFeed

\* lines 771-781: the levels handed to entry()
ComputeExitLevels ==
    /\ exit_levels.stage = "args"
    /\ exit_levels' = [stage |-> "done", args |-> exit_levels.args,
                       activation_bps |-> activation_bps(exit_levels.args),
                       tp_bps |-> tp_bps(exit_levels.args)]
    /\ UNCHANGED << loop_vars, sizing, strat, klines, trades, feed, shutdown, pnl, arming, signal, lifetime, touch >>

SpecLevels == InitLevels /\ [][ComputeExitLevels]_vars

\* C14: the take-profit distance handed to entry() is the larger of the
\* configured take_profit_bps and activation_bps + min_take_profit_gap_bps, so
\* it is a number at least the trailing-activation distance plus the gap.
C14_TakeProfitClearsActivation ==
    exit_levels.stage = "done" =>
        LET tp == exit_levels.tp_bps
            act == exit_levels.activation_bps
            gap == exit_levels.args.min_take_profit_gap_bps
            cfg_tp == exit_levels.args.take_profit_bps
        IN /\ ~tp.nan
           /\ ~act.nan
           /\ tp.v >= act.v + gap.v
           /\ tp.v >= cfg_tp.v
           /\ tp.v = cfg_tp.v \/ tp.v = act.v + gap.v

\* configured TP 20, activation 18, gap 4 give 22
C14_Witness ==
    /\ exit_levels.stage = "done"
    /\ exit_levels.args.take_profit_bps = Bps(20)
    /\ exit_levels.activation_bps = Bps(18)
    /\ exit_levels.args.min_take_profit_gap_bps = Bps(4)
    /\ exit_levels.tp_bps = Bps(22)

(***************************************************************************)
(* Order sizing: OrderPlacer.compute_qty_for_notional (order.py 211-237).  *)
(* Quantities are exact fractions n/d of a base unit; stepSize, minQty and *)
(* maxQty are whole numbers of base units, prices and notionals whole USD. *)
(***************************************************************************)
\* the multiples of stepSize the sizing property looks through
MaxSizingSteps == 12

Frac(n, d) == [n |-> n, d |-> d]

FracLt(a, b) == a.n * b.d < b.n * a.d

FracLe(a, b) == a.n * b.d <= b.n * a.d

FracTimes(a, k) == Frac(a.n * k, a.d)

ToNextIntegral(n, d, mode) ==
    IF mode = "up" THEN (n \div d) + 1 ELSE n \div d

\* to_integral_value(ROUND_UP / ROUND_DOWN) of n/d, d > 0: away from / towards zero
ToIntegral(n, d, mode) ==
    LET floor == n \div d
        ceil == 0 - ((0 - n) \div d)
    IN IF mode = "up" THEN (IF n >= 0 THEN ceil ELSE floor)
       ELSE (IF n >= 0 THEN floor ELSE ceil)

_round_to_step(value, step, mode) ==
    IF step <= 0 THEN value
    ELSE Frac(ToIntegral(value.n, value.d * step, mode) * step, 1)

\* filters.get("stepSize") is None or <= 0: the quantity is left as it is
_round_qty(filters, qty, mode) ==
    IF filters.stepSize = None \/ Val(filters.stepSize) <= 0 THEN qty
    ELSE _round_to_step(qty, Val(filters.stepSize), mode)

QtyRoundDown == "down"

\* the rounding mode compute_qty_for_notional asks for
QtyRoundMode == "up"

Raised == [raised |-> TRUE]

Returned(qty) == [raised |-> FALSE, qty |-> qty]

compute_qty_for_notional(filters, entry_price, order_notional_usd) ==
    IF entry_price <= 0 THEN Raised
    ELSE IF order_notional_usd <= 0 THEN Raised
    ELSE LET raw_qty == Frac(order_notional_usd, entry_price)
             qty1 == _round_qty(filters, raw_qty, QtyRoundMode)
             qty2 == IF filters.minQty # None /\ FracLt(qty1, Frac(Val(filters.minQty), 1))
                     THEN _round_qty(filters, Frac(Val(filters.minQty), 1), QtyRoundMode)
                     ELSE qty1
             qty3 == IF /\ filters.minNotional # None
                        /\ FracLt(FracTimes(qty2, entry_price), Frac(Val(filters.minNotional), 1))
                     THEN _round_qty(filters, Frac(Val(filters.minNotional), entry_price),
                                     QtyRoundMode)
                     ELSE qty2
         IN IF filters.maxQty # None /\ FracLt(Frac(Val(filters.maxQty), 1), qty3)
            THEN Raised
            ELSE Returned(qty3)

\* the LOT_SIZE / MIN_NOTIONAL filters as _load_exchange_filters stores them
SymbolFilters ==
    [ stepSize : { None, Some(1), Some(3) },
      minQty : { None, Some(1), Some(5) },
      minNotional : { None, Some(5), Some(30) },
      maxQty : { None, Some(4), Some(9) } ]

SizingArgs ==
    [ filters : SymbolFilters, entry_price : { 0, 3, 7 }, order_notional_usd : { 0, 10, 20 } ]

InitSizing ==
    /\ LoopInit
    /\ cfg.enable_trading
    /\ touch = NoTouch
    /\ lifetime = NoTracker
    /\ signal = NoSignal
    /\ arming = NoArming
    /\ pnl = NoPnl
    /\ shutdown = NoShutdown
    /\ exit_levels = NoLevels
    /\ sizing \in { [stage |-> "args", args |-> a] : a \in SizingArgs }
    /\ strat = NoStrategy
    /\ klines = NoKlines
    /\ trades = NoTrades
    /\ feed = NoFeed

ComputeQty ==
    /\ sizing.stage = "args"
    /\ sizing' = [stage |-> "done", args |-> sizing.args,
                  result |-> compute_qty_for_notional(sizing.args.filters,
                                                      sizing.args.entry_price,
                                                      sizing.args.order_notional_usd)]
    /\ UNCHANGED << loop_vars, exit_levels, strat, klines, trades, feed, shutdown, pnl, arming, signal, lifetime, touch >>

SpecSizing == InitSizing /\ [][ComputeQty]_vars

\* q covers the notional at the price and meets minQty and minNotional
Admissible(a, q) ==
    /\ FracLe(Frac(a.order_notional_usd, a.entry_price), q)
    /\ a.filters.minQty # None => FracLe(Frac(Val(a.filters.minQty), 1), q)
    /\ a.filters.minNotional # None =>
           FracLe(Frac(Val(a.filters.minNotional), 1), FracTimes(q, a.entry_price))

\* the quantities among which the least admissible one is found
SizingCandidates(a) ==
    IF a.filters.stepSize # None
    THEN { Frac(k * Val(a.filters.stepSize), 1) : k \in 0..MaxSizingSteps }
    ELSE { Frac(a.order_notional_usd, a.entry_price) }
         \cup (IF a.filters.minQty # None THEN { Frac(Val(a.filters.minQty), 1) } ELSE {})
         \cup (IF a.filters.minNotional # None
               THEN { Frac(Val(a.filters.minNotional), a.entry_price) } ELSE {})

\* C15: a returned quantity is a multiple of stepSize that covers the notional
\* and meets minQty, minNotional and maxQty; the call raises exactly when the
\* price or the notional is not positive or every admissible quantity exceeds
\* maxQty.
C15_QtyMeetsFilters ==
    sizing.stage = "done" =>
        LET a == sizing.args
            r == sizing.result
            valid == a.entry_price > 0 /\ a.order_notional_usd > 0
        IN IF r.raised
           THEN \/ ~valid
                \/ /\ a.filters.maxQty # None
                   /\ \A c \in SizingCandidates(a) :
                          Admissible(a, c) => FracLt(Frac(Val(a.filters.maxQty), 1), c)
           ELSE /\ valid
                /\ a.filters.stepSize # None =>
                       (r.qty.d = 1 /\ r.qty.n % Val(a.filters.stepSize) = 0)
                /\ Admissible(a, r.qty)
                /\ a.filters.maxQty # None => FracLe(r.qty, Frac(Val(a.filters.maxQty), 1))

\* notional 20 at price 3 with step 3: 6.67 is rounded up to 9, within maxQty 9
C15_Witness ==
    /\ sizing.stage = "done"
    /\ sizing.args.entry_price = 3
    /\ sizing.args.order_notional_usd = 20
    /\ sizing.args.filters.stepSize = Some(3)
    /\ sizing.args.filters.maxQty = Some(9)
    /\ sizing.result = Returned(Frac(9, 1))

(***************************************************************************)
(* The signal engine: Strategy.on_second for one symbol (strategy.py       *)
(* 53-151).  The Rogers-Satchell variances are kept as opaque entries and  *)
(* the outcome of the return-against-volatility test is an input; the      *)
(* volume test is computed from the window.                                *)
(***************************************************************************)
\* the largest close_time_ms of a bar handed to on_second
MaxBars == 4

\* cfg.n = 1.3 as the ratio 13/10
n_num == 13

n_den == 10

WindowSizes == { 1, 2, 3 }

\* deque.append with maxlen: the oldest entry leaves a full deque
DequeAppend(dq, x, maxlen) ==
    IF Len(dq) >= maxlen THEN Append(Tail(dq), x) ELSE Append(dq, x)

RECURSIVE SeqSum(_)
SeqSum(q) == IF q = << >> THEN 0 ELSE Head(q) + SeqSum(Tail(q))

NoDecision == [kind |-> "none", enter |-> FALSE, side |-> None]

Decision(kind) == [NoDecision EXCEPT !.kind = kind]

\* Strategy.__init__
NewStrategy(t_window, v_window) ==
    [ stage |-> "run",
      t_window |-> t_window,
      v_window |-> v_window,
      _rs_vars |-> << >>,
      _vols |-> << >>,
      _last_closed_close_ms |-> 0,
      _prev_close |-> None,
      pushed_rs |-> 0,       \* observation: entries ever appended to _rs_vars
      pushed_vols |-> 0,     \* observation: entries ever appended to _vols
      bars_1m |-> None,      \* observation: the bar of the last call
      decision |-> NoDecision ]

\* the 1-minute bars getBars can hand to on_second (None: no bar cached yet)
BarInputs(st) ==
    { None } \cup
    { Some([is_closed |-> ic, close_time_ms |-> ct, ohlcv_ok |-> ok, close |-> c, base_vol |-> v]) :
        ic \in BOOLEAN,
        ct \in { t \in { st._last_closed_close_ms, st._last_closed_close_ms + 1 } : t <= MaxBars },
        ok \in BOOLEAN, c \in { 0, 100 }, v \in { 1, 4 } }

WindowsReadyEither(rs_len, vol_len, t_window, v_window) ==
    rs_len >= t_window \/ vol_len >= v_window

\* rs_ready and vol_ready
WindowsReady(rs_len, vol_len, t_window, v_window) ==
    rs_len >= t_window /\ vol_len >= v_window

\* avg_vol is not None and avg_vol > 0 and v > cfg.n * avg_vol
indicator2(vols, v) ==
    /\ vols # << >>
    /\ SeqSum(vols) > 0
    /\ v * n_den * Len(vols) > n_num * SeqSum(vols)

EnterOnIndicators(indicator1, indicator_2, blockers_ok, side) ==
    indicator1 /\ indicator_2 /\ side \in { Some("BUY"), Some("SELL") }

\* bool(indicator1 and indicator2 and blockers_ok and side in ("BUY", "SELL"))
ShouldEnter(indicator1, indicator_2, blockers_ok, side) ==
    indicator1 /\ indicator_2 /\ blockers_ok /\ side \in { Some("BUY"), Some("SELL") }

ClosedOrRepeatedBar(bar, last_closed_close_ms) ==
    ~((~bar.is_closed) \/ bar.close_time_ms < last_closed_close_ms)

\* the negation of "not is_closed or close_time_ms <= self._last_closed_close_ms[symbol]"
NewClosedBar(bar, last_closed_close_ms) ==
    ~((~bar.is_closed) \/ bar.close_time_ms <= last_closed_close_ms)

\* on_second: the Strategy after the call, with the returned decision in it
on_second(st, bars_1m, side, blockers_ok) ==
    IF bars_1m = None THEN [st EXCEPT !.decision = NoDecision]
    ELSE LET bar == Val(bars_1m)
         IN IF ~NewClosedBar(bar, st._last_closed_close_ms)
            THEN [st EXCEPT !.decision = NoDecision]
            ELSE IF ~bar.ohlcv_ok
            THEN [st EXCEPT !._last_closed_close_ms = bar.close_time_ms,
                            !.decision = Decision("missing_ohlcv")]
            ELSE LET rs_vars == DequeAppend(st._rs_vars, 0, Max(2, st.t_window))
                     vols == DequeAppend(st._vols, bar.base_vol, Max(2, st.v_window))
                     st1 == [st EXCEPT !._last_closed_close_ms = bar.close_time_ms,
                                       !._rs_vars = rs_vars,
                                       !._vols = vols,
                                       !._prev_close = Some(bar.close),
                                       !.pushed_rs = @ + 1,
                                       !.pushed_vols = @ + 1]
                 IN IF st._prev_close = None \/ Val(st._prev_close) <= 0
                    THEN [st1 EXCEPT !.decision = Decision("first_close_seen")]
                    ELSE IF ~WindowsReady(Len(rs_vars), Len(vols), st.t_window, st.v_window)
                    THEN [st1 EXCEPT !.decision = Decision("warming_up")]
                    ELSE LET indicator1 == side # None
                             should_enter == ShouldEnter(indicator1, indicator2(vols, bar.base_vol),
                                                         blockers_ok, side)
                         IN [st1 EXCEPT !.decision = [kind |-> "signal",
                                                      enter |-> should_enter,
                                                      side |-> side]]

InitStrategy ==
    /\ LoopInit
    /\ cfg.enable_trading
    /\ touch = NoTouch
    /\ lifetime = NoTracker
    /\ signal = NoSignal
    /\ arming = NoArming
    /\ pnl = NoPnl
    /\ shutdown = NoShutdown
    /\ exit_levels = NoLevels
    /\ sizing = NoSizing
    /\ strat \in { NewStrategy(t, v) : t \in WindowSizes, v \in WindowSizes }
    /\ klines = NoKlines
    /\ trades = NoTrades
    /\ feed = NoFeed

\* one tick's call of strat.on_second (main.py 539-545)
OnSecond ==
    /\ \E bars_1m \in BarInputs(strat), side \in { None, Some("BUY"), Some("SELL") },
          blockers_ok \in BOOLEAN :
        strat' = [on_second(strat, bars_1m, side, blockers_ok) EXCEPT !.bars_1m = bars_1m]
    /\ UNCHANGED << loop_vars, exit_levels, sizing, klines, trades, feed, shutdown, pnl, arming, signal, lifetime, touch >>

SpecStrategy == InitStrategy /\ [][OnSecond]_vars

\* C16: on_second returns enter = true only after t_window variances and
\* v_window volumes have been pushed; before that its answer is none, an
\* error, first_close_seen or warming_up, without enter.
C16_NoEnterBeforeWarm ==
    /\ strat.decision.enter => (strat.pushed_rs >= strat.t_window
                                /\ strat.pushed_vols >= strat.v_window)
    /\ (strat.pushed_rs < strat.t_window \/ strat.pushed_vols < strat.v_window)
         => strat.decision.kind \in { "none", "missing_ohlcv", "first_close_seen", "warming_up" }

\* the third push into windows of 3 and 2 gave an entry signal
C16_Witness ==
    /\ strat.t_window = 3
    /\ strat.v_window = 2
    /\ strat.pushed_rs = 3
    /\ strat.decision.enter

\* the tick went as far as the margin check of maybe_exit
ReachedMarginCheck(e) == e.branch \in { "margin_kill", "hold" }

\* C17: in a tick that reaches the margin check with an open position, a
\* MARGIN_KILL close is submitted if and only if the account read succeeded,
\* totalMaintMargin is not zero and totalMarginBalance / totalMaintMargin is at
\* most margin_safety_multiple (maintenance margins are never negative here).
C17_MarginKillIffBreached ==
    ReachedMarginCheck(ev) =>
        ("MARGIN_KILL" \in OrderTags(ev)
            <=> /\ ev.acct # None
                /\ Val(ev.acct).mm # 0
                /\ Val(ev.acct).mb * margin_safety_multiple_den
                       <= margin_safety_multiple_num * Val(ev.acct).mm)

(***************************************************************************)
(* Kline aggregation: AsterClient._handle_kline for one symbol (client.py  *)
(* 346-385).                                                               *)
(***************************************************************************)
\* closed 1-minute bars delivered to the handler
MaxClosedBars == 11

DERIVED_BAR_MINS == 10

RECURSIVE SeqMax(_)
SeqMax(q) == IF Len(q) = 1 THEN Head(q) ELSE Max(Head(q), SeqMax(Tail(q)))

RECURSIVE SeqMin(_)
SeqMin(q) == IF Len(q) = 1 THEN Head(q) ELSE Min(Head(q), SeqMin(Tail(q)))

Highs(bucket) == [i \in 1..Len(bucket) |-> bucket[i].high]

Lows(bucket) == [i \in 1..Len(bucket) |-> bucket[i].low]

BaseVols(bucket) == [i \in 1..Len(bucket) |-> bucket[i].base_vol]

\* the kline events of the stream: the k-th minute's bar, closed or still open
KlineEvents(k) ==
    { [ start_time_ms |-> k * MsPerMinute,
        close_time_ms |-> (k + 1) * MsPerMinute - 1,
        interval |-> "1m",
        open |-> 10 + px, high |-> 12 + px, low |-> 9 - px, close |-> 11 - px,
        base_vol |-> 1 + px,
        is_closed |-> x ] : px \in { 0, 1 }, x \in BOOLEAN }

\* bar10 of lines 373-384
DerivedBar(bucket) ==
    [ start_time_ms |-> bucket[1].start_time_ms,
      close_time_ms |-> bucket[Len(bucket)].close_time_ms,
      open |-> bucket[1].open,
      high |-> SeqMax(Highs(bucket)),
      low |-> SeqMin(Lows(bucket)),
      close |-> bucket[Len(bucket)].close,
      base_vol |-> SeqSum(BaseVols(bucket)) ]

_handle_kline(c, kline) ==
    LET c1 == [c EXCEPT !.latest_kline_1m = Some(kline)]
    IN IF kline.is_closed /\ kline.interval = "1m"
       THEN LET appended == Append(c._kline_bucket, kline)
                bucket == IF Len(appended) > DERIVED_BAR_MINS THEN Tail(appended) ELSE appended
            IN [c1 EXCEPT !._kline_bucket = bucket,
                          !.closed_bars = Append(@, kline),
                          !.derived_10m_bars =
                              IF Len(bucket) = DERIVED_BAR_MINS
                              THEN Append(@, DerivedBar(bucket))
                              ELSE @]
       ELSE c1

InitKlines ==
    /\ LoopInit
    /\ cfg.enable_trading
    /\ touch = NoTouch
    /\ lifetime = NoTracker
    /\ signal = NoSignal
    /\ arming = NoArming
    /\ pnl = NoPnl
    /\ shutdown = NoShutdown
    /\ exit_levels = NoLevels
    /\ sizing = NoSizing
    /\ strat = NoStrategy
    /\ klines = NoKlines
    /\ trades = NoTrades
    /\ feed = NoFeed

\* one kline message of the stream, handled under the lock
HandleKline ==
    /\ Len(klines.closed_bars) < MaxClosedBars
    /\ \E kline \in KlineEvents(Len(klines.closed_bars)) :
           klines' = _handle_kline(klines, kline)
    /\ UNCHANGED << loop_vars, exit_levels, sizing, strat, trades, feed, shutdown, pnl, arming, signal, lifetime, touch >>

SpecKlines == InitKlines /\ [][HandleKline]_vars

\* the closed bars from which the i-th derived bar of a tumbling window is built
TumblingWindow(i) ==
    SubSeq(klines.closed_bars, (i - 1) * DERIVED_BAR_MINS + 1, i * DERIVED_BAR_MINS)

\* C18: derived bars form a tumbling window over the closed 1-minute bars in
\* arrival order: one derived bar per DERIVED_BAR_MINS closed bars, the i-th
\* built from the i-th run of DERIVED_BAR_MINS bars (open of its first, close
\* of its last, highest high, lowest low, summed volume).
C18_TumblingDerivedBars ==
    /\ Len(klines.derived_10m_bars) = Len(klines.closed_bars) \div DERIVED_BAR_MINS
    /\ \A i \in 1..Len(klines.derived_10m_bars) :
           (i * DERIVED_BAR_MINS <= Len(klines.closed_bars))
               => klines.derived_10m_bars[i] = DerivedBar(TumblingWindow(i))

(***************************************************************************)
(* Trade buffer: AsterClient._handle_aggtrade for one symbol (client.py    *)
(* 409-423), seeded by _seed_from_rest_snapshot (client.py 254-280).  A    *)
(* trade is represented by its arrival number.                             *)
(***************************************************************************)
\* trades received, seeded ones included
MaxTrades == 5005

\* len(buf) > 5000
TradeBufferCap == 5000

\* del buf[:2500]
TradeBufferDrop == 2500

\* rest.agg_trades(sym, limit=100)
SeedLimit == 100

OtherEventTypes == { "kline", "bookTicker", "markPriceUpdate", "depthUpdate" }

\* drops one trade too many
TrimBufferBelowHalf(buf) ==
    IF Len(buf) > TradeBufferCap THEN SubSeq(buf, TradeBufferDrop + 2, Len(buf)) ELSE buf

\* if len(buf) > 5000: del buf[:2500]
TrimBuffer(buf) ==
    IF Len(buf) > TradeBufferCap THEN SubSeq(buf, TradeBufferDrop + 1, Len(buf)) ELSE buf

_handle_aggtrade(t) ==
    [t EXCEPT !.recent_agg_trades = TrimBuffer(Append(@, t.received + 1)),
              !.received = @ + 1,
              !.last_etype = "aggTrade"]

\* parsed_trades[-5000:] of a REST page of n trades, sorted by trade time
SeededTrades(n) ==
    [ recent_agg_trades |-> [i \in 1..Min(n, TradeBufferCap) |-> n - Min(n, TradeBufferCap) + i],
      received |-> n,
      last_etype |-> "" ]

InitTrades ==
    /\ LoopInit
    /\ cfg.enable_trading
    /\ touch = NoTouch
    /\ lifetime = NoTracker
    /\ signal = NoSignal
    /\ arming = NoArming
    /\ pnl = NoPnl
    /\ shutdown = NoShutdown
    /\ exit_levels = NoLevels
    /\ sizing = NoSizing
    /\ strat = NoStrategy
    /\ klines = NoKlines
    /\ trades \in { SeededTrades(n) : n \in { 0, SeedLimit } }
    /\ feed = NoFeed

\* _on_ws_message with an aggTrade event
HandleAggTrade ==
    /\ trades.received < MaxTrades
    /\ trades' = _handle_aggtrade(trades)
    /\ UNCHANGED << loop_vars, exit_levels, sizing, strat, klines, feed, shutdown, pnl, arming, signal, lifetime, touch >>

\* _on_ws_message with an event of another type: the buffer is not touched
HandleOtherEvent ==
    /\ trades.received < MaxTrades
    /\ \E etype \in OtherEventTypes : trades' = [trades EXCEPT !.last_etype = etype]
    /\ UNCHANGED << loop_vars, exit_levels, sizing, strat, klines, feed, shutdown, pnl, arming, signal, lifetime, touch >>

SpecTrades == InitTrades /\ [][HandleAggTrade \/ HandleOtherEvent]_vars

\* the buffer holds the n latest received trades, oldest first
LatestTrades(t, n) == [i \in 1..n |-> t.received - n + i]

\* C19: an aggTrade update leaves at most 5000 trades in arrival order ending
\* with the trade just received; it drops exactly the oldest 2500 when the
\* append makes the buffer exceed 5000 and nothing otherwise; an update of
\* another type leaves the buffer as it was.
C19_TradeBufferBounded ==
    [][ /\ trades'.received # trades.received =>
            /\ Len(trades'.recent_agg_trades) <= 5000
            /\ Len(trades'.recent_agg_trades) >= 1
            /\ trades'.recent_agg_trades
                   = LatestTrades(trades', Len(trades'.recent_agg_trades))
            /\ Len(trades'.recent_agg_trades) =
                   IF Len(trades.recent_agg_trades) + 1 > 5000
                   THEN Len(trades.recent_agg_trades) + 1 - 2500
                   ELSE Len(trades.recent_agg_trades) + 1
        /\ trades'.received = trades.received =>
            trades'.recent_agg_trades = trades.recent_agg_trades ]_vars

\* a trade has just been appended to a full buffer, and the oldest 2500 are gone
C19_Witness ==
    /\ trades.last_etype = "aggTrade"
    /\ Len(trades.recent_agg_trades) = 2501
    /\ trades.received > 5000

(***************************************************************************)
(* Snapshot against the stream: the websocket thread runs _on_ws_message   *)
(* (client.py 325-341), the control loop takes its per-tick snapshot with  *)
(* the five getters (main.py 523-532, client.py 434-453); both under       *)
(* client._lock.  One symbol.  A cached value is represented by the number *)
(* of the stream update that wrote it (0: the REST seed).                  *)
(***************************************************************************)
\* stream updates delivered
MaxUpdates == 4

EventTypes == { "kline", "bookTicker", "markPriceUpdate", "aggTrade", "depthUpdate" }

\* the getters in the order the snapshot calls them
Getters == << "bars", "bbo", "funding", "trades_1s", "l2" >>

\* a thread that does not wait for the lock
LockIgnored(lock) == TRUE

\* threading.Lock: acquired only when no thread holds it
LockFree(lock) == lock = "free"

\* the caches after _seed_from_rest_snapshot, the stream subscribed
SeededFeed ==
    [ stage |-> "live",
      _lock |-> "free",
      applied |-> 0,                       \* observation: stream updates applied so far
      latest_kline_1m |-> 0,
      latest_bbo |-> [bid_px |-> 0, ask_px |-> 0],
      latest_funding |-> 0,
      recent_agg_trades |-> 0,
      latest_l2 |-> 0,
      ws_pc |-> "idle",                    \* "idle" | "handle" | "release"
      ws_etype |-> "",
      main_pc |-> 0,                       \* 0: outside; i: about to call Getters[i]; 6: to release
      symbol_rows |-> << >>,               \* the rows read so far in this tick
      read_at |-> << >> ]                  \* observation: `applied` at each read

\* the handler of one event type writes its cache
ApplyEvent(f, etype, u) ==
    CASE etype = "kline" -> [f EXCEPT !.latest_kline_1m = u]
      [] etype = "bookTicker" -> [f EXCEPT !.latest_bbo = [bid_px |-> u, ask_px |-> u]]
      [] etype = "markPriceUpdate" -> [f EXCEPT !.latest_funding = u]
      [] etype = "aggTrade" -> [f EXCEPT !.recent_agg_trades = u]
      [] etype = "depthUpdate" -> [f EXCEPT !.latest_l2 = u]

\* getBars / getBBO / getFundingInfo / getTrades / getL2: a copy of the cache
GetterValue(f, i) ==
    CASE i = 1 -> [name |-> "bars", bars |-> f.latest_kline_1m]
      [] i = 2 -> [name |-> "bbo", bid_px |-> f.latest_bbo.bid_px, ask_px |-> f.latest_bbo.ask_px]
      [] i = 3 -> [name |-> "funding", funding |-> f.latest_funding]
      [] i = 4 -> [name |-> "trades_1s", trades |-> f.recent_agg_trades]
      [] i = 5 -> [name |-> "l2", l2 |-> f.latest_l2]

InitFeed ==
    /\ LoopInit
    /\ cfg.enable_trading
    /\ touch = NoTouch
    /\ lifetime = NoTracker
    /\ signal = NoSignal
    /\ arming = NoArming
    /\ pnl = NoPnl
    /\ shutdown = NoShutdown
    /\ exit_levels = NoLevels
    /\ sizing = NoSizing
    /\ strat = NoStrategy
    /\ klines = NoKlines
    /\ trades = NoTrades
    /\ feed = SeededFeed

\* _on_ws_message: a message arrives, the thread enters `with self._lock`
WsAcquire ==
    /\ feed.ws_pc = "idle"
    /\ feed.applied < MaxUpdates
    /\ LockFree(feed._lock)
    /\ \E etype \in EventTypes :
           feed' = [feed EXCEPT !._lock = "ws", !.ws_pc = "handle", !.ws_etype = etype]
    /\ UNCHANGED << loop_vars, exit_levels, sizing, strat, klines, trades, shutdown, pnl, arming, signal, lifetime, touch >>

\* the dispatched handler runs
WsHandle ==
    /\ feed.ws_pc = "handle"
    /\ feed' = [ApplyEvent(feed, feed.ws_etype, feed.applied + 1)
                    EXCEPT !.applied = @ + 1, !.ws_pc = "release"]
    /\ UNCHANGED << loop_vars, exit_levels, sizing, strat, klines, trades, shutdown, pnl, arming, signal, lifetime, touch >>

\* the thread leaves the with block
WsRelease ==
    /\ feed.ws_pc = "release"
    /\ feed' = [feed EXCEPT !._lock = "free", !.ws_pc = "idle", !.ws_etype = ""]
    /\ UNCHANGED << loop_vars, exit_levels, sizing, strat, klines, trades, shutdown, pnl, arming, signal, lifetime, touch >>

\* the control loop enters `with client._lock`, starting a new snapshot
MainAcquire ==
    /\ feed.main_pc = 0
    /\ LockFree(feed._lock)
    /\ feed' = [feed EXCEPT !._lock = "main", !.main_pc = 1,
                            !.symbol_rows = << >>, !.read_at = << >>]
    /\ UNCHANGED << loop_vars, exit_levels, sizing, strat, klines, trades, shutdown, pnl, arming, signal, lifetime, touch >>

\* the next getter of the snapshot
MainRead ==
    /\ feed.main_pc \in 1..Len(Getters)
    /\ feed' = [feed EXCEPT !.symbol_rows = Append(@, GetterValue(feed, feed.main_pc)),
                            !.read_at = Append(@, feed.applied),
                            !.main_pc = @ + 1]
    /\ UNCHANGED << loop_vars, exit_levels, sizing, strat, klines, trades, shutdown, pnl, arming, signal, lifetime, touch >>

\* the control loop leaves the with block; the rows are used by the tick
MainRelease ==
    /\ feed.main_pc = Len(Getters) + 1
    /\ feed' = [feed EXCEPT !._lock = "free", !.main_pc = 0]
    /\ UNCHANGED << loop_vars, exit_levels, sizing, strat, klines, trades, shutdown, pnl, arming, signal, lifetime, touch >>

NextFeed ==
    \/ WsAcquire
    \/ WsHandle
    \/ WsRelease
    \/ MainAcquire
    \/ MainRead
    \/ MainRelease

SpecFeed == InitFeed /\ [][NextFeed]_vars

\* the value a getter called after exactly n applied updates would have returned
\* is the one in the row: no row holds a value written by a later update
RowNotNewerThan(row, n) ==
    CASE row.name = "bars" -> row.bars <= n
      [] row.name = "bbo" -> row.bid_px <= n /\ row.ask_px <= n
      [] row.name = "funding" -> row.funding <= n
      [] row.name = "trades_1s" -> row.trades <= n
      [] row.name = "l2" -> row.l2 <= n

\* C20: the rows of one snapshot are all read at the same point of the update
\* stream, with no handler in the middle of its update: bid and ask come from
\* the same bookTicker update and no row holds a value newer than that point.
C20_SnapshotPointInTime ==
    feed.stage = "live" =>
        /\ \A i, j \in 1..Len(feed.read_at) : feed.read_at[i] = feed.read_at[j]
        /\ \A i \in 1..Len(feed.symbol_rows) :
               /\ RowNotNewerThan(feed.symbol_rows[i], feed.read_at[1])
               /\ feed.symbol_rows[i].name = "bbo"
                      => feed.symbol_rows[i].bid_px = feed.symbol_rows[i].ask_px
        /\ feed.main_pc # 0 => feed.ws_pc = "idle"

\* a complete snapshot taken between two stream updates, the stream having
\* moved on since
C20_Witness ==
    /\ feed.stage = "live"
    /\ feed.main_pc = 0
    /\ Len(feed.symbol_rows) = Len(Getters)
    /\ feed.read_at[1] >= 1
    /\ feed.applied > feed.read_at[1]
    /\ feed.symbol_rows[2].bid_px >= 1

(***************************************************************************)
(* Leaving the control loop: the while condition (main.py 470-471), the    *)
(* try without except around the ticks, and the finally block (main.py     *)
(* 846-851) with AsterClient.graceful_shutdown (client.py 467-493) and     *)
(* CsvLogManager.close (logs.py 275-280).  Whether a call that can raise   *)
(* does raise is an input of the step that makes the call.                 *)
(***************************************************************************)
\* args.poll_time, in iterations
MaxLoopTicks == 3

\* the CsvAppenders CsvLogManager.close() flushes, in order
LogWriters == << "bars", "bbo", "funding", "trades_1s", "depth5" >>

\* the loop about to evaluate its condition for the first time
RunningLoop ==
    [ stage |-> "live",
      at |-> "while",              \* "while" | "tick" | the cleanup step about to run | "ended"
      elapsed |-> 0,
      _stop_event |-> FALSE,
      way_out |-> "",              \* "limit" | "stop" | "exception"
      writers_closed |-> 0,        \* CsvAppenders flushed by logger.close() so far
      log |-> << >>,               \* observation: the cleanup steps performed, in order
      failed |-> {} ]              \* observation: the cleanup steps that raised

\* while (time.time() - start) < args.poll_time and not client._stop_event.is_set()
LoopCondition(sd) == sd.elapsed < MaxLoopTicks /\ ~sd._stop_event

WayOut(sd) == IF sd.elapsed >= MaxLoopTicks THEN "limit" ELSE "stop"

InitShutdown ==
    /\ LoopInit
    /\ cfg.enable_trading
    /\ touch = NoTouch
    /\ lifetime = NoTracker
    /\ signal = NoSignal
    /\ arming = NoArming
    /\ pnl = NoPnl
    /\ exit_levels = NoLevels
    /\ sizing = NoSizing
    /\ strat = NoStrategy
    /\ klines = NoKlines
    /\ trades = NoTrades
    /\ feed = NoFeed
    /\ shutdown = RunningLoop

\* the condition is evaluated at the top of an iteration
WhileTest ==
    /\ shutdown.stage = "live"
    /\ shutdown.at = "while"
    /\ shutdown' = IF LoopCondition(shutdown)
                   THEN [shutdown EXCEPT !.at = "tick"]
                   ELSE [shutdown EXCEPT !.at = "set_stop", !.way_out = WayOut(shutdown)]
    /\ UNCHANGED << loop_vars, exit_levels, sizing, strat, klines, trades, feed, pnl, arming, signal, lifetime, touch >>

\* the body of one iteration runs to its end, or raises
TickBody ==
    /\ shutdown.stage = "live"
    /\ shutdown.at = "tick"
    /\ \E raises \in BOOLEAN :
           shutdown' = IF raises
                       THEN [shutdown EXCEPT !.at = "set_stop", !.way_out = "exception"]
                       ELSE [shutdown EXCEPT !.at = "while", !.elapsed = @ + 1]
    /\ UNCHANGED << loop_vars, exit_levels, sizing, strat, klines, trades, feed, pnl, arming, signal, lifetime, touch >>

\* the stop flag is set from outside the loop while it runs
StopRequested ==
    /\ shutdown.stage = "live"
    /\ shutdown.at \in { "while", "tick" }
    /\ ~shutdown._stop_event
    /\ shutdown' = [shutdown EXCEPT !._stop_event = TRUE]
    /\ UNCHANGED << loop_vars, exit_levels, sizing, strat, klines, trades, feed, pnl, arming, signal, lifetime, touch >>

\* finally: client._stop_event.set()
FinallySetStop ==
    /\ shutdown.stage = "live"
    /\ shutdown.at = "set_stop"
    /\ shutdown' = [shutdown EXCEPT !._stop_event = TRUE, !.at = "logger_close"]
    /\ UNCHANGED << loop_vars, exit_levels, sizing, strat, klines, trades, feed, pnl, arming, signal, lifetime, touch >>

\* finally: client.logger.close() flushes the next writer; an exception leaves
\* the finally block
LoggerClose ==
    /\ shutdown.stage = "live"
    /\ shutdown.at = "logger_close"
    /\ \E raises \in BOOLEAN :
           shutdown' = IF raises
                       THEN [shutdown EXCEPT !.failed = @ \cup { "logs_flushed" }, !.at = "ended"]
                       ELSE IF shutdown.writers_closed + 1 < Len(LogWriters)
                       THEN [shutdown EXCEPT !.writers_closed = @ + 1]
                       ELSE [shutdown EXCEPT !.writers_closed = @ + 1,
                                             !.log = Append(@, "logs_flushed"),
                                             !.at = "prepare_ws"]
    /\ UNCHANGED << loop_vars, exit_levels, sizing, strat, klines, trades, feed, pnl, arming, signal, lifetime, touch >>

\* graceful_shutdown: _prepare_ws_for_shutdown, every assignment under suppress
PrepareWs ==
    /\ shutdown.stage = "live"
    /\ shutdown.at = "prepare_ws"
    /\ shutdown' = [shutdown EXCEPT !.log = Append(@, "reconnect_disabled"), !.at = "send_close"]
    /\ UNCHANGED << loop_vars, exit_levels, sizing, strat, klines, trades, feed, pnl, arming, signal, lifetime, touch >>

\* graceful_shutdown: try: _send_close_all(...); time.sleep(...)
SendCloseAll ==
    /\ shutdown.stage = "live"
    /\ shutdown.at = "send_close"
    /\ \E raises \in BOOLEAN :
           shutdown' = IF raises
                       THEN [shutdown EXCEPT !.failed = @ \cup { "close_sent" }, !.at = "ws_stop"]
                       ELSE [shutdown EXCEPT !.log = Append(@, "close_sent"), !.at = "ws_stop"]
    /\ UNCHANGED << loop_vars, exit_levels, sizing, strat, klines, trades, feed, pnl, arming, signal, lifetime, touch >>

\* graceful_shutdown: finally: with suppress(Exception): self.ws.stop()
WsStop ==
    /\ shutdown.stage = "live"
    /\ shutdown.at = "ws_stop"
    /\ \E raises \in BOOLEAN :
           shutdown' = IF raises
                       THEN [shutdown EXCEPT !.failed = @ \cup { "ws_stopped" }, !.at = "ended"]
                       ELSE [shutdown EXCEPT !.log = Append(@, "ws_stopped"), !.at = "ended"]
    /\ UNCHANGED << loop_vars, exit_levels, sizing, strat, klines, trades, feed, pnl, arming, signal, lifetime, touch >>

NextShutdown ==
    \/ WhileTest
    \/ TickBody
    \/ StopRequested
    \/ FinallySetStop
    \/ LoggerClose
    \/ PrepareWs
    \/ SendCloseAll
    \/ WsStop

SpecShutdown == InitShutdown /\ [][NextShutdown]_vars

Performed(step) == \E i \in 1..Len(shutdown.log) : shutdown.log[i] = step

\* C21: once the loop is left and the cleanup is over, each of the three steps
\* (logs flushed, auto-reconnect disabled, websocket stopped) was performed
\* unless that very step failed, and the graceful close is never sent before
\* auto-reconnect is disabled.
C21_CleanupRunsAllSteps ==
    shutdown.stage = "live" =>
        /\ Performed("close_sent") => Performed("reconnect_disabled")
        /\ shutdown.at = "ended" =>
               \A step \in { "logs_flushed", "reconnect_disabled", "ws_stopped" } :
                   Performed(step) \/ step \in shutdown.failed

(***************************************************************************)
(* Trade accounting: the PnL fields of _finalize_trade (main.py 238-263).  *)
(* Prices, quantities, notionals and fees are integers (in the smallest    *)
(* unit of each); a return is the exact fraction n/d.  The two replies of  *)
(* get_order_trade_stats are inputs.                                       *)
(***************************************************************************)
\* Python's "a or b or ... or last" over optional numbers: None and 0 are falsy
FirstTruthy(opts, last) ==
    LET truthy == SelectSeq(opts, LAMBDA o : o # None /\ Val(o) # 0)
    IN IF truthy = << >> THEN last ELSE Val(Head(truthy))

OrderTradeStats(avg_prices, qtys, notionals, fees) ==
    [ avg_price : avg_prices, executed_qty : qtys, notional : notionals, fee : fees ]

FinalizeArgs ==
    [ side : Sides,
      pos_qty : { 1 },
      tracker_entry_fill_price : { None, Some(100) },
      tracker_fill_quantity : { None, Some(2) },
      entry_stats : OrderTradeStats({ None, Some(0), Some(100), Some(125) }, { None, Some(2) },
                                    { None, Some(250) }, { None, Some(1) }),
      exit_stats : OrderTradeStats({ None, Some(90), Some(110) }, { None }, { None },
                                   { None, Some(0), Some(2) }),
      exit_fill_price_hint : { None, Some(120) } ]

\* a return that ignores the side of the position
unsigned_return(is_long, raw_return) == raw_return

\* signed_return = raw_return if pos.is_long else -raw_return
signed_return(is_long, raw_return) ==
    IF is_long THEN raw_return ELSE Frac(0 - raw_return.n, raw_return.d)

\* the price, fee and PnL fields of the row _finalize_trade appends
_finalize_trade(a) ==
    LET entry_fill_price == FirstTruthy(<< a.entry_stats.avg_price, a.tracker_entry_fill_price >>, 0)
        fill_quantity == FirstTruthy(<< a.entry_stats.executed_qty, a.tracker_fill_quantity >>, a.pos_qty)
        fill_notional == FirstTruthy(<< a.entry_stats.notional >>, entry_fill_price * fill_quantity)
        exit_fill_price == FirstTruthy(<< a.exit_stats.avg_price, a.exit_fill_price_hint >>,
                                       entry_fill_price)
        fees_notional == FirstTruthy(<< a.entry_stats.fee >>, 0) + FirstTruthy(<< a.exit_stats.fee >>, 0)
        raw_return == IF entry_fill_price > 0
                      THEN Frac(exit_fill_price - entry_fill_price, entry_fill_price)
                      ELSE Frac(0, 1)
        signed == signed_return(a.side = "BUY", raw_return)
        gross_pnl_notional == Frac(fill_notional * signed.n, signed.d)
    IN [ entry_fill_price |-> entry_fill_price,
         fill_quantity |-> fill_quantity,
         fill_notional |-> fill_notional,
         exit_fill_price |-> exit_fill_price,
         fees_notional |-> fees_notional,
         raw_return |-> raw_return,
         signed_return |-> signed,
         gross_pnl_notional |-> gross_pnl_notional,
         total_pnl_notional |-> Frac(gross_pnl_notional.n - fees_notional * gross_pnl_notional.d,
                                     gross_pnl_notional.d) ]

InitPnl ==
    /\ LoopInit
    /\ cfg.enable_trading
    /\ touch = NoTouch
    /\ lifetime = NoTracker
    /\ signal = NoSignal
    /\ arming = NoArming
    /\ exit_levels = NoLevels
    /\ sizing = NoSizing
    /\ strat = NoStrategy
    /\ klines = NoKlines
    /\ trades = NoTrades
    /\ feed = NoFeed
    /\ shutdown = NoShutdown
    /\ pnl \in { [stage |-> "args", args |-> a] : a \in FinalizeArgs }

\* one call of _finalize_trade
FinalizeTrade ==
    /\ pnl.stage = "args"
    /\ pnl' = [stage |-> "done", args |-> pnl.args, row |-> _finalize_trade(pnl.args)]
    /\ UNCHANGED << loop_vars, exit_levels, sizing, strat, klines, trades, feed, shutdown, arming, signal, lifetime, touch >>

SpecPnl == InitPnl /\ [][FinalizeTrade]_vars

FracEq(a, b) == a.n * b.d = b.n * a.d

FeeOf(stats) == IF stats.fee = None THEN 0 ELSE Val(stats.fee)

\* C22: in the row of a finalized trade with a positive entry price,
\* signed_return is (exit - entry) / entry for a long and (entry - exit) / entry
\* for a short, gross PnL is fill_notional * signed_return and net PnL is
\* gross PnL minus the entry fee and the exit fee.
C22_PnlIdentities ==
    (pnl.stage = "done" /\ pnl.row.entry_fill_price > 0) =>
        LET r == pnl.row
            diff == IF pnl.args.side = "BUY" THEN r.exit_fill_price - r.entry_fill_price
                    ELSE r.entry_fill_price - r.exit_fill_price
        IN /\ r.signed_return.d # 0 /\ r.gross_pnl_notional.d # 0 /\ r.total_pnl_notional.d # 0
           /\ FracEq(r.signed_return, Frac(diff, r.entry_fill_price))
           /\ FracEq(r.gross_pnl_notional, Frac(r.fill_notional * diff, r.entry_fill_price))
           /\ FracEq(r.total_pnl_notional,
                     Frac(r.fill_notional * diff
                              - (FeeOf(pnl.args.entry_stats) + FeeOf(pnl.args.exit_stats))
                                    * r.entry_fill_price,
                          r.entry_fill_price))

\* a short bought back lower, with both fees: 250 * (100 - 90) / 100 - 3 = 22
C22_Witness ==
    /\ pnl.stage = "done"
    /\ pnl.args.side = "SELL"
    /\ pnl.row.entry_fill_price = 100
    /\ pnl.row.exit_fill_price = 90
    /\ pnl.row.fill_notional = 250
    /\ pnl.row.fees_notional = 3
    /\ FracEq(pnl.row.total_pnl_notional, Frac(22, 1))

\* C23: with enable_trading false no step of the loop submits or cancels an
\* order or queries position, account or balance, the exchange holds nothing
\* for the account, and no PositionState or tracker is ever created.
C23_DisabledTradingIsInert ==
    ~cfg.enable_trading =>
        /\ ev.branch \in { "none", "top", "disabled", "exit" }
        /\ ev.orders = << >> /\ ev.cancels = {}
        /\ ev.live_qty = None /\ ev.acct = None /\ ev.entry_query = "none"
        /\ risk = NewRisk
        /\ \A s \in Symbols :
               /\ positions[s] = None /\ trade_trackers[s] = None
               /\ ex_position_amt[s] = 0 /\ ex_open_orders[s] = {}

\* two whole iterations have run with trading disabled
C23_Witness ==
    /\ ~cfg.enable_trading
    /\ n_poll_snapshots >= 2
    /\ ev.branch = "disabled"

\* C24: no step of the for body ends the loop, whatever the exchange answers:
\* the loop is left only at its while condition.
C24_ExchangeFailureKeepsLooping ==
    [][(pc # "stopped" /\ pc' = "stopped") => (pc = "loop" /\ ev'.branch = "exit")]_vars

\* C25: the first tick of a new UTC day resets the day-start balance, the peak
\* balance, the drawdown fraction and the blocked flag (which then hold only
\* what that tick's balance read gives), and clears every symbol's
\* cooldown-until and last-force-exit-attempt timestamps.
C25_DayResetClearsRiskState ==
    [][(pc = "loop" /\ pc' = "symbols" /\ cfg.enable_trading
            /\ risk.daily_balance_day # Some(utc_day(ts_ms')))
         => /\ risk'.daily_balance_day = Some(utc_day(ts_ms'))
            /\ risk'.daily_start_balance = risk'.daily_last_balance
            /\ risk'.daily_peak_balance = risk'.daily_last_balance
            /\ risk'.daily_drawdown_frac.num = 0
            /\ ~risk'.daily_drawdown_blocked
            /\ \A s \in Symbols : /\ cooldown_until_ms'[s] = 0
                                  /\ last_force_exit_attempt_ms'[s] = 0]_vars

\* C26: in every loop state - blocked by the drawdown flag or past the
\* force-exit cutoff included - the tick that processes a symbol whose
\* PositionState has no position left on the exchange is able to finalize and
\* remove it (some answer of the exchange makes it do so), so that the
\* PositionState is not kept for as long as that loop state lasts.
C26_ExchangeFlatIsFinalized ==
    (pc = "symbols" /\ positions[CurSym] # None /\ ex_position_amt[CurSym] = 0)
        => ENABLED (Next /\ positions'[CurSym] = None)

\* C27: an entry that filled and had one of its trigger orders rejected still
\* leaves the loop running with a PositionState for the symbol, holding the
\* ids of exactly the triggers the exchange accepted, and with a tracker.
C27_ArmingFailureNonFatal ==
    [][(InBody /\ ev'.branch = "entry" /\ ev'.entry_query = "ok" /\ ev'.entry_fill > 0
            /\ ev'.raised)
         => /\ pc' # "stopped"
            /\ positions'[CurSym] # None
            /\ trade_trackers'[CurSym] # None
            /\ SiblingIds(Val(positions'[CurSym]))
                   = { o.type : o \in ex_open_orders'[CurSym] }]_vars

(***************************************************************************)
(* Trigger prices: OrderPlacer.place_exit_triggers (order.py 387-441) fed  *)
(* with the levels main.py 771-781 computes.  Prices and tick sizes are    *)
(* integers (in 1/100 of the quote unit) or exact fractions of them; a     *)
(* level is in 1/8 bps as above, so that 1e4 bps are 80000 units.          *)
(***************************************************************************)
UnitsPerOne == 80000

\* validated configurations (main.py 397-408) and tick fields
ArmingLevels ==
    [ taker_fee_bps : { Bps(4) },
      opening_loss_bps : { None, Some(Bps(5)) },
      funding_rate_bps : { None },
      trailing_activation_bps : { Bps(8), Bps(18) },
      trailing_activation_buffer_bps : { Bps(0) },
      take_profit_bps : { Bps(10), Bps(20), Bps(30) },
      min_take_profit_gap_bps : { Bps(0), Bps(4) } ]

ArmingArgs ==
    [ side : Sides,
      entry_vwap_px : { 10000, 12345 },
      tickSize : { None, Some(1), Some(10), Some(50) },
      levels : ArmingLevels ]

\* _round_price: filters.get("tickSize") is None or <= 0 leaves the price as it is
_round_price(tickSize, price, mode) ==
    IF tickSize = None \/ Val(tickSize) <= 0 THEN price
    ELSE _round_to_step(price, Val(tickSize), mode)

\* entry * (1.0 + bps / 1e4) for a long, entry * (1.0 - bps / 1e4) for a short
RECURSIVE Gcd(_, _)
Gcd(a, b) == IF b = 0 THEN a ELSE Gcd(b, a % b)

\* the fraction n/d in lowest terms (the same number, kept small)
Lowest(n, d) == Frac(n \div Gcd(n, d), d \div Gcd(n, d))

PriceAway(is_long, entry, level) ==
    IF is_long THEN Lowest(entry * (UnitsPerOne + level), UnitsPerOne)
    ELSE Lowest(entry * (UnitsPerOne - level), UnitsPerOne)

\* the stop price of TAKE_PROFIT_MARKET and the activation price of
\* TRAILING_STOP_MARKET as place_exit_triggers and _new_order send them
place_exit_triggers(a) ==
    LET is_long == a.side = "BUY"
        take_profit_bps == tp_bps(a.levels).v
        given_activation_bps == activation_bps(a.levels).v
        trailing_activation_bps == IF given_activation_bps <= 0 THEN take_profit_bps \div 2
                                   ELSE given_activation_bps
        tp_stop_price == _round_price(a.tickSize,
                                      PriceAway(is_long, a.entry_vwap_px, take_profit_bps), "down")
        trailing_activation_price ==
            _round_price(a.tickSize,
                         PriceAway(is_long, a.entry_vwap_px, trailing_activation_bps), "down")
    IN [ take_profit_stop_price |-> _round_price(a.tickSize, tp_stop_price, "down"),
         trailing_activation_price |-> _round_price(a.tickSize, trailing_activation_price, "down") ]

InitArming ==
    /\ LoopInit
    /\ cfg.enable_trading
    /\ touch = NoTouch
    /\ lifetime = NoTracker
    /\ signal = NoSignal
    /\ exit_levels = NoLevels
    /\ sizing = NoSizing
    /\ strat = NoStrategy
    /\ klines = NoKlines
    /\ trades = NoTrades
    /\ feed = NoFeed
    /\ shutdown = NoShutdown
    /\ pnl = NoPnl
    /\ arming \in { [stage |-> "args", args |-> a] : a \in ArmingArgs }

\* one call of place_exit_triggers after a filled entry
ArmTriggers ==
    /\ arming.stage = "args"
    /\ arming' = [stage |-> "armed", args |-> arming.args,
                  prices |-> place_exit_triggers(arming.args)]
    /\ UNCHANGED << loop_vars, exit_levels, sizing, strat, klines, trades, feed, shutdown, pnl, signal, lifetime, touch >>

SpecArming == InitArming /\ [][ArmTriggers]_vars

\* C28: the take-profit stop price of an armed position lies strictly beyond
\* its trailing-stop activation price: higher for a long, lower for a short.
C28_TakeProfitBeyondActivation ==
    arming.stage = "armed" =>
        IF arming.args.side = "BUY"
        THEN FracLt(arming.prices.trailing_activation_price, arming.prices.take_profit_stop_price)
        ELSE FracLt(arming.prices.take_profit_stop_price, arming.prices.trailing_activation_price)

\* C29: a step of the for body removes the PositionState of the symbol only
\* when the exchange reported a zero position in that step or a forced close
\* filled the whole amount the exchange held; a forced close that filled less
\* than the exchange held leaves the PositionState as it was.
C29_RemovalOnlyOnFullExit ==
    [][InBody =>
        /\ (positions[CurSym] # None /\ positions'[CurSym] = None)
              => \/ ev'.live_qty = Some(0)
                 \/ /\ ForcedCloseSubmitted(ev')
                    /\ ev'.close_fill >= Abs(ex_position_amt[CurSym])
        /\ (/\ positions[CurSym] # None
            /\ ForcedCloseSubmitted(ev')
            /\ ev'.close_fill < Abs(ex_position_amt[CurSym]))
              => positions'[CurSym] = positions[CurSym]]_vars

\* C30: an entry order is submitted only in a step whose position query
\* (main.py line 763) answered, and answered with a zero position: a step
\* whose query failed submits no entry.
C30_NoEntryOnUnknownPosition ==
    [][(InBody /\ EntrySubmitted(ev')) => ev'.live_qty = Some(0)]_vars

\* the bar of the last call was not closed, or not later than the last processed one
StaleBar(bars_1m, last_closed_close_ms) ==
    /\ bars_1m # None
    /\ \/ ~Val(bars_1m).is_closed
       \/ Val(bars_1m).close_time_ms <= last_closed_close_ms

\* C31: a call of on_second with a bar that is not closed, or whose
\* close_time_ms is at or before the last processed close time, returns no
\* decision and leaves both rolling windows, the previous close and the
\* last processed time as they were.
C31_StaleBarIgnored ==
    [][(strat.stage = "run" /\ StaleBar(strat'.bars_1m, strat._last_closed_close_ms))
         => /\ strat'.decision = NoDecision
            /\ strat'._rs_vars = strat._rs_vars
            /\ strat'._vols = strat._vols
            /\ strat'._prev_close = strat._prev_close
            /\ strat'._last_closed_close_ms = strat._last_closed_close_ms
            /\ strat'.pushed_rs = strat.pushed_rs
            /\ strat'.pushed_vols = strat.pushed_vols]_vars

\* a closed bar that was processed before was handed in again and nothing was pushed
C31_Witness ==
    /\ strat.stage = "run"
    /\ strat.bars_1m # None
    /\ Val(strat.bars_1m).is_closed
    /\ Val(strat.bars_1m).ohlcv_ok
    /\ Val(strat.bars_1m).close_time_ms = strat._last_closed_close_ms
    /\ strat.pushed_rs = 2
    /\ strat._last_closed_close_ms = 2
    /\ strat.decision = NoDecision

(***************************************************************************)
(* The signal part of Strategy.on_second (strategy.py 119-151) with        *)
(* _check_blockers (153-210).  Prices are integers in tenths of the quote  *)
(* unit, the funding rate is an integer in 1e-6 (hundredths of a basis     *)
(* point); basis-point quantities are exact fractions.                     *)
(***************************************************************************)
\* --max_spread 0.2, in tenths
max_spread == 2

\* --max_funding_abs_bps 1.5, in hundredths of a basis point
max_funding_abs_bps == 150

BpsPerOne == 10000

BboInputs ==
    { None } \cup
    { Some([bid_px |-> b, ask_px |-> a]) :
        b \in { None, Some(9998), Some(10000) },
        a \in { None, Some(10000), Some(10001), Some(10003) } }

FundingInputs ==
    { None } \cup
    { Some([funding_rate |-> fr, mark_px |-> m]) :
        fr \in { None, Some(0), Some(150), Some(151), Some(0 - 200) },
        m \in { None, Some(0), Some(9990), Some(10000) } }

\* how ret_bps stands against k * rs_vol_bps
ReturnTests == { "above", "below", "within" }

SignalArgs ==
    [ ret_test : ReturnTests, indicator2 : BOOLEAN, bbo : BboInputs, funding : FundingInputs ]

\* (d or {}).get(key)
DictGet(d, key) == IF d = None THEN None ELSE Val(d)[key]

\* _bps_ret(px, ref) of strategy.py
_bps_ret(px, ref) == IF ref = 0 THEN Frac(0, 1) ELSE Lowest(BpsPerOne * (px - ref), ref)

FracMax(a, b) == IF FracLt(a, b) THEN b ELSE a

FracMin(a, b) == IF FracLt(b, a) THEN b ELSE a

\* _check_blockers: (blockers_ok, detail)
_check_blockers(bbo, funding, side) ==
    LET bid == DictGet(bbo, "bid_px")
        ask == DictGet(bbo, "ask_px")
        \* bbo carries no "mid": mid = 0.5 * (bid + ask), kept as twice its value
        mid_twice == IF bid # None /\ ask # None THEN Some(Val(bid) + Val(ask)) ELSE None
        no_spread == bid = None \/ ask = None \/ mid_twice = None \/ Val(mid_twice) <= 0
        spread_bps == IF no_spread THEN None
                      ELSE Some(Lowest(2 * BpsPerOne * (Val(ask) - Val(bid)), Val(mid_twice)))
        spread_ok == IF no_spread THEN FALSE ELSE Val(ask) - Val(bid) <= max_spread
        fr == DictGet(funding, "funding_rate")
        funding_ok == IF fr = None THEN FALSE ELSE Abs(Val(fr)) <= max_funding_abs_bps
        mark == DictGet(funding, "mark_px")
        opening_loss == IF side = None \/ mark = None \/ bid = None \/ ask = None THEN None
                            ELSE IF side = Some("BUY") THEN Some(_bps_ret(Val(ask), Val(mark)))
                            ELSE Some(_bps_ret(Val(mark), Val(bid)))
        opening_ok == IF side = None THEN TRUE
                      ELSE IF mark = None \/ bid = None \/ ask = None THEN FALSE
                      ELSE IF spread_bps = None THEN FALSE
                      ELSE FracLe(Val(opening_loss),
                                  FracMin(Frac(10, 1),
                                          FracMax(Frac(5, 1), FracTimes(Val(spread_bps), 2))))
    IN [ ok |-> spread_ok /\ funding_ok /\ opening_ok,
         spread_ok |-> spread_ok, funding_ok |-> funding_ok, opening_ok |-> opening_ok,
         opening_loss_bps |-> opening_loss ]

\* lines 122-151: side and indicator 1 from the return test, then the decision
SignalDecision(a) ==
    LET side == CASE a.ret_test = "above" -> Some("BUY")
                  [] a.ret_test = "below" -> Some("SELL")
                  [] OTHER -> None
        indicator1 == side # None
        blockers == _check_blockers(a.bbo, a.funding, side)
    IN [ indicator1 |-> indicator1, indicator2 |-> a.indicator2, side |-> side,
         blockers_ok |-> blockers.ok, blockers |-> blockers,
         enter |-> ShouldEnter(indicator1, a.indicator2, blockers.ok, side) ]

InitSignal ==
    /\ LoopInit
    /\ cfg.enable_trading
    /\ touch = NoTouch
    /\ lifetime = NoTracker
    /\ exit_levels = NoLevels
    /\ sizing = NoSizing
    /\ strat = NoStrategy
    /\ klines = NoKlines
    /\ trades = NoTrades
    /\ feed = NoFeed
    /\ shutdown = NoShutdown
    /\ pnl = NoPnl
    /\ arming = NoArming
    /\ signal \in { [stage |-> "args", args |-> a] : a \in SignalArgs }

\* on_second on a new closed bar with both windows full
EvaluateSignal ==
    /\ signal.stage = "args"
    /\ signal' = [stage |-> "decided", args |-> signal.args,
                  decision |-> SignalDecision(signal.args)]
    /\ UNCHANGED << loop_vars, exit_levels, sizing, strat, klines, trades, feed, shutdown, pnl, arming, lifetime, touch >>

SpecSignal == InitSignal /\ [][EvaluateSignal]_vars

\* a value of the snapshot is missing: no BBO, no bid or ask, no funding
\* record, no funding rate or no mark price
SnapshotIncomplete(a) ==
    \/ DictGet(a.bbo, "bid_px") = None
    \/ DictGet(a.bbo, "ask_px") = None
    \/ DictGet(a.funding, "funding_rate") = None
    \/ DictGet(a.funding, "mark_px") = None

\* C32: on_second returns enter = true only if indicator 1 chose BUY or SELL,
\* indicator 2 holds, the spread is at most max_spread, the funding rate is
\* at most max_funding_abs_bps in size and the opening loss is within its
\* limit; enter is false whenever the BBO, the funding rate or the mark
\* price is missing from the snapshot.
C32_EnterNeedsAllConditions ==
    (signal.stage = "decided" /\ signal.decision.enter) =>
        LET a == signal.args
            d == signal.decision
        IN /\ a.ret_test \in { "above", "below" }
           /\ d.side = (IF a.ret_test = "above" THEN Some("BUY") ELSE Some("SELL"))
           /\ a.indicator2
           /\ ~SnapshotIncomplete(a)
           /\ Val(Val(a.bbo).ask_px) - Val(Val(a.bbo).bid_px) <= max_spread
           /\ Abs(Val(Val(a.funding).funding_rate)) <= max_funding_abs_bps
           /\ d.blockers.opening_ok
           /\ FracLe(Val(d.blockers.opening_loss_bps), Frac(10, 1))

\* a SELL signal with a spread of 0.2, funding of 1.5 bps and a complete snapshot
C32_Witness ==
    /\ signal.stage = "decided"
    /\ signal.decision.enter
    /\ signal.decision.side = Some("SELL")
    /\ signal.args.bbo = Some([bid_px |-> Some(9998), ask_px |-> Some(10000)])
    /\ Val(signal.args.funding).funding_rate = Some(150)

\* the quantity of the entry order: rounded down by entry() (order.py 287)
\* and once more by _new_order (order.py 703)
EntryOrderQuantity(filters, quantity) ==
    _round_qty(filters, _round_qty(filters, quantity, "down"), "down")

RoundModes == { "up", "down" }

\* C33: rounding to the step is idempotent in both modes, rounding down a
\* value that was rounded up returns it unchanged, and the quantity
\* compute_qty_for_notional returns is the quantity of the entry order
\* after the roundings of entry() and _new_order.
C33_RoundingIdempotent ==
    (sizing.stage = "done" /\ sizing.args.entry_price > 0) =>
        LET f == sizing.args.filters
            raw_qty == Frac(sizing.args.order_notional_usd, sizing.args.entry_price)
        IN /\ \A m \in RoundModes :
                _round_qty(f, _round_qty(f, raw_qty, m), m) = _round_qty(f, raw_qty, m)
           /\ _round_qty(f, _round_qty(f, raw_qty, "up"), "down") = _round_qty(f, raw_qty, "up")
           /\ ~sizing.result.raised =>
                  EntryOrderQuantity(f, sizing.result.qty) = sizing.result.qty

\* notional 20 at price 7 with step 3 and minNotional 30: 2.86 is rounded up
\* to 3, then 4.29 to 6, and 6 is the quantity of the order
C33_Witness ==
    /\ sizing.stage = "done"
    /\ sizing.args.entry_price = 7
    /\ sizing.args.order_notional_usd = 20
    /\ sizing.args.filters.stepSize = Some(3)
    /\ sizing.args.filters.minNotional = Some(30)
    /\ sizing.result = Returned(Frac(6, 1))
    /\ EntryOrderQuantity(sizing.args.filters, sizing.result.qty) = Frac(6, 1)

\* the exit triggers a step submitted
ExitArmOrders(e) == { e.orders[i] : i \in { j \in 1..Len(e.orders) : e.orders[j].tag = "EXIT_ARM" } }

OppositeSide(side) == IF side = "BUY" THEN "SELL" ELSE "BUY"

\* C34: every exit trigger submitted after a filled entry has the side
\* opposite to the entry order, the quantity the entry filled, and is
\* reduce-only; triggers are submitted only after an entry that filled.
C34_TriggersReduceFilledQty ==
    \A o \in ExitArmOrders(ev) :
        /\ EntrySubmitted(ev)
        /\ ev.entry_fill > 0
        /\ o.type \in { TriggerTypes[i] : i \in 1..3 }
        /\ o.side = OppositeSide(ev.orders[1].side)
        /\ o.qty = ev.entry_fill
        /\ o.reduceOnly

\* an entry SELL for 2 filled 1: three reduce-only BUY triggers for 1 were armed
C34_Witness ==
    /\ EntrySubmitted(ev)
    /\ ev.orders[1].side = "SELL"
    /\ ev.orders[1].qty = 2
    /\ ev.entry_fill = 1
    /\ Cardinality(ExitArmOrders(ev)) = 3
    /\ ~ev.raised
    /\ positions[ev.sym] # None
    /\ ex_position_amt[ev.sym] = 0 - 1

\* C35: whenever the for body is not in the middle of a symbol's step, and so
\* at the end of every tick, a TradeTracker exists for a symbol exactly when
\* a PositionState exists for it.
C35_TrackerIffPosition ==
    \A s \in Symbols : (trade_trackers[s] # None) <=> (positions[s] # None)

\* a tick ended after a drawdown close removed PositionState and tracker together
C35_Witness ==
    /\ pc = "loop"
    /\ ev.branch = "dd_close"
    /\ ev.close_ok
    /\ positions[ev.sym] = None
    /\ trade_trackers[ev.sym] = None

(***************************************************************************)
(* The lifetime statistics of a TradeTracker: _update_trade_tracker        *)
(* (main.py 171-206) applied to the trades_1s snapshots of successive      *)
(* ticks.  An aggregate trade has one price and one quantity, so the       *)
(* trades are drawn from a fixed table.                                    *)
(***************************************************************************)
\* snapshots applied to one tracker
MaxTrackerUpdates == 3

\* trades of the stream: three plain ones, one of quantity 0, one without a
\* price and one without an aggregate id
StreamTrades ==
    { [agg_id |-> Some(1), price |-> Some(5), qty |-> Some(1)],
      [agg_id |-> Some(2), price |-> Some(9), qty |-> Some(2)],
      [agg_id |-> Some(3), price |-> Some(2), qty |-> Some(1)],
      [agg_id |-> Some(4), price |-> Some(7), qty |-> Some(0)],
      [agg_id |-> Some(5), price |-> None, qty |-> Some(1)],
      [agg_id |-> None, price |-> Some(20), qty |-> Some(1)] }

\* snap.get("trades_1s"): the trades of the last second, at most two here
TradeSnapshots ==
    { << >> } \cup { << t >> : t \in StreamTrades }
              \cup { p \in { << t, u >> : t \in StreamTrades, u \in StreamTrades } : p[1] # p[2] }

\* the statistics part of the tracker main.py 813-827 creates
NewTracker ==
    [ stage |-> "open",
      seen_trade_ids |-> {},
      order_lifetime_market_volume_quantity |-> 0,
      order_lifetime_market_volume_notional |-> 0,
      order_lifetime_open |-> None,
      order_lifetime_high |-> None,
      order_lifetime_low |-> None,
      order_lifetime_close |-> None,
      updates |-> 0,         \* observation: snapshots applied
      trades_1s |-> << >>,   \* observation: the last snapshot
      seen_before |-> {} ]   \* observation: seen_trade_ids before the last snapshot

NeverSeen(agg_id_int, seen) == FALSE

\* agg_id_int in seen
AlreadySeen(agg_id_int, seen) == agg_id_int \in seen

\* the body of the for loop over the trades of a snapshot
ApplyTrade(tr, t) ==
    IF t.agg_id = None THEN tr
    ELSE IF AlreadySeen(Val(t.agg_id), tr.seen_trade_ids) THEN tr
    ELSE LET tr1 == [tr EXCEPT !.seen_trade_ids = @ \cup { Val(t.agg_id) }]
         IN IF t.price = None \/ t.qty = None \/ Val(t.qty) <= 0 THEN tr1
            ELSE LET px == Val(t.price)
                     qty == Val(t.qty)
                     first == tr1.order_lifetime_open = None
                     high == IF first THEN px ELSE Val(tr1.order_lifetime_high)
                     low == IF first THEN px ELSE Val(tr1.order_lifetime_low)
                 IN [tr1 EXCEPT
                       !.order_lifetime_market_volume_quantity = @ + qty,
                       !.order_lifetime_market_volume_notional = @ + px * qty,
                       !.order_lifetime_open = IF first THEN Some(px) ELSE @,
                       !.order_lifetime_close = Some(px),
                       !.order_lifetime_high = Some(Max(high, px)),
                       !.order_lifetime_low = Some(Min(low, px))]

RECURSIVE _update_trade_tracker(_, _)
_update_trade_tracker(tr, trades_1s) ==
    IF trades_1s = << >> THEN tr
    ELSE _update_trade_tracker(ApplyTrade(tr, Head(trades_1s)), Tail(trades_1s))

InitTracker ==
    /\ LoopInit
    /\ cfg.enable_trading
    /\ touch = NoTouch
    /\ exit_levels = NoLevels
    /\ sizing = NoSizing
    /\ strat = NoStrategy
    /\ klines = NoKlines
    /\ trades = NoTrades
    /\ feed = NoFeed
    /\ shutdown = NoShutdown
    /\ pnl = NoPnl
    /\ arming = NoArming
    /\ signal = NoSignal
    /\ lifetime = NewTracker

\* one tick with an open position: main.py 566-567
UpdateTradeTracker ==
    /\ lifetime.stage = "open"
    /\ lifetime.updates < MaxTrackerUpdates
    /\ \E trades_1s \in TradeSnapshots :
        lifetime' = [_update_trade_tracker(lifetime, trades_1s) EXCEPT
                       !.updates = @ + 1, !.trades_1s = trades_1s,
                       !.seen_before = lifetime.seen_trade_ids]
    /\ UNCHANGED << loop_vars, exit_levels, sizing, strat, klines, trades, feed, shutdown, pnl,
                    arming, signal, touch >>

SpecTracker == InitTracker /\ [][UpdateTradeTracker]_vars

\* the aggregate ids of the trades of a snapshot
SnapshotIds(trades_1s) ==
    { Val(trades_1s[i].agg_id) : i \in { j \in 1..Len(trades_1s) : trades_1s[j].agg_id # None } }

\* the trades that count: with id, price and a positive quantity
CountedTrades(seen) ==
    { t \in StreamTrades : /\ t.agg_id # None
                           /\ Val(t.agg_id) \in seen
                           /\ t.price # None
                           /\ Val(t.qty) > 0 }

RECURSIVE SumOver(_, _, _)
SumOver(S, notional, acc) ==
    IF S = {} THEN acc
    ELSE LET t == CHOOSE x \in S : TRUE
         IN SumOver(S \ { t }, notional,
                    acc + (IF notional THEN Val(t.price) * Val(t.qty) ELSE Val(t.qty)))

LifetimeStats(tr) ==
    << tr.order_lifetime_market_volume_quantity, tr.order_lifetime_market_volume_notional,
       tr.order_lifetime_open, tr.order_lifetime_high, tr.order_lifetime_low,
       tr.order_lifetime_close >>

\* volume and notional are the sums over the seen trades that count, each
\* taken once; once open is set, low <= open <= high and low <= close <= high
TrackerStatsConsistent(tr) ==
    /\ tr.order_lifetime_market_volume_quantity = SumOver(CountedTrades(tr.seen_trade_ids), FALSE, 0)
    /\ tr.order_lifetime_market_volume_notional = SumOver(CountedTrades(tr.seen_trade_ids), TRUE, 0)
    /\ tr.order_lifetime_open # None =>
          /\ Val(tr.order_lifetime_low) <= Val(tr.order_lifetime_open)
          /\ Val(tr.order_lifetime_open) <= Val(tr.order_lifetime_high)
          /\ Val(tr.order_lifetime_low) <= Val(tr.order_lifetime_close)
          /\ Val(tr.order_lifetime_close) <= Val(tr.order_lifetime_high)

\* C36: each aggregate trade id contributes to volume, notional and OHLC of a
\* TradeTracker at most once: an update with a snapshot whose trades were all
\* seen before leaves them unchanged, and after every update the sums count
\* each seen trade once and low <= open <= high, low <= close <= high.
C36_TradeCountedOnce ==
    [][lifetime.stage = "open" =>
         /\ TrackerStatsConsistent(lifetime')
         /\ SnapshotIds(lifetime'.trades_1s) \subseteq lifetime.seen_trade_ids
               => LifetimeStats(lifetime') = LifetimeStats(lifetime)]_vars

\* the snapshot of the last tick came again, after a tick with other trades:
\* volume 3, open 5, high 9, low 5, close 9 as before
C36_Witness ==
    /\ lifetime.stage = "open"
    /\ lifetime.updates = 3
    /\ lifetime.seen_before = { 1, 2 }
    /\ Len(lifetime.trades_1s) = 2
    /\ lifetime.trades_1s[1].agg_id = Some(1)
    /\ lifetime.trades_1s[2].agg_id = Some(2)
    /\ lifetime.seen_trade_ids = { 1, 2 }
    /\ lifetime.order_lifetime_market_volume_quantity = 3
    /\ lifetime.order_lifetime_market_volume_notional = 23
    /\ lifetime.order_lifetime_open = Some(5)
    /\ lifetime.order_lifetime_close = Some(9)

\* the loop configured with entry_halt_utc later than force_exit_utc
InitLateHalt == LoopStart(LateHaltSchedules) /\ AuxInit

SpecLateHalt == InitLateHalt /\ [][Next]_vars

\* C37: no entry order is submitted at a tick whose UTC minute of the day is
\* at or after entry_halt_utc, nor at one at or after force_exit_utc.
C37_NoEntryAfterHaltOrCutoff ==
    EntrySubmitted(ev) =>
        /\ _utc_minute_of_day(ts_ms) < cfg.entry_halt_min
        /\ _utc_minute_of_day(ts_ms) < cfg.force_exit_min

(***************************************************************************)
(* One entry attempt against the streaming book ticker: the tick sizes the *)
(* order at the touch it reads in get_entry_limit_price (main.py 783-795)  *)
(* and entry() reads the touch again before it submits (order.py 271-302), *)
(* while the websocket thread replaces latest_bbo[symbol]                  *)
(* (client.py 390-398) at any moment.  Prices are integers.                *)
(***************************************************************************)
\* book ticker events that arrive during the attempt
MaxBookUpdates == 2

\* (bid_px, ask_px) of a book ticker event
BookTickers == { [bid_px |-> 95, ask_px |-> 96],
                 [bid_px |-> 100, ask_px |-> 101],
                 [bid_px |-> 104, ask_px |-> 106] }

TouchTickSizes == { None, Some(5) }

\* stepSize 1 and minNotional 500 of the symbol
TouchFilters == [stepSize |-> Some(1), minQty |-> None, minNotional |-> Some(500),
                 maxQty |-> None]

\* effective_order_notional of the tick
TouchNotional == 300

\* _get_touch: (bid_px, ask_px) of latest_bbo[symbol], (None, None) without one
_get_touch(latest_bbo) ==
    IF latest_bbo = None THEN [bid_px |-> None, ask_px |-> None]
    ELSE [bid_px |-> Some(Val(latest_bbo).bid_px), ask_px |-> Some(Val(latest_bbo).ask_px)]

\* the touch price for the side, rounded up for BUY and down for SELL; None without BBO
get_entry_limit_price(tickSize, side, latest_bbo) ==
    LET t == _get_touch(latest_bbo)
    IN IF t.bid_px = None \/ t.ask_px = None THEN None
       ELSE LET raw_price == IF side = "BUY" THEN Val(t.ask_px) ELSE Val(t.bid_px)
                mode == IF side = "BUY" THEN "up" ELSE "down"
            IN Some(_round_price(tickSize, Frac(raw_price, 1), mode).n)

InitTouch ==
    /\ LoopInit
    /\ cfg.enable_trading
    /\ exit_levels = NoLevels
    /\ sizing = NoSizing
    /\ strat = NoStrategy
    /\ klines = NoKlines
    /\ trades = NoTrades
    /\ feed = NoFeed
    /\ shutdown = NoShutdown
    /\ pnl = NoPnl
    /\ arming = NoArming
    /\ signal = NoSignal
    /\ lifetime = NoTracker
    /\ touch \in { [stage |-> "gates_passed", side |-> sd, tickSize |-> tk, latest_bbo |-> b,
                    updates |-> 0, entry_limit_price |-> None, order_qty |-> None,
                    taker_price |-> None] :
                   sd \in Sides, tk \in TouchTickSizes,
                   b \in { None } \cup { Some(x) : x \in BookTickers } }

\* websocket thread: _handle_bookticker stores the event as latest_bbo[symbol]
HandleBookTicker ==
    /\ touch.stage \in { "gates_passed", "sized" }
    /\ touch.updates < MaxBookUpdates
    /\ \E b \in BookTickers :
        touch' = [touch EXCEPT !.latest_bbo = Some(b), !.updates = @ + 1]
    /\ UNCHANGED << loop_vars, exit_levels, sizing, strat, klines, trades, feed, shutdown, pnl,
                    arming, signal, lifetime >>

\* main thread, main.py 783-795: price for sizing, then the quantity
SizeEntry ==
    /\ touch.stage = "gates_passed"
    /\ LET entry_limit_price == get_entry_limit_price(touch.tickSize, touch.side, touch.latest_bbo)
       IN IF entry_limit_price = None
          THEN touch' = [touch EXCEPT !.stage = "skipped"]
          ELSE LET r == compute_qty_for_notional(TouchFilters, Val(entry_limit_price),
                                                 TouchNotional)
               IN touch' = IF r.raised THEN [touch EXCEPT !.stage = "skipped"]
                           ELSE [touch EXCEPT !.stage = "sized",
                                              !.entry_limit_price = entry_limit_price,
                                              !.order_qty = Some(r.qty)]
    /\ UNCHANGED << loop_vars, exit_levels, sizing, strat, klines, trades, feed, shutdown, pnl,
                    arming, signal, lifetime >>

\* main thread, entry(): reads the touch again and submits the IOC order at it
SubmitEntry ==
    /\ touch.stage = "sized"
    /\ LET taker_price == get_entry_limit_price(touch.tickSize, touch.side, touch.latest_bbo)
       IN touch' = IF taker_price = None
                   THEN [touch EXCEPT !.stage = "no_bbo"]
                   ELSE [touch EXCEPT !.stage = "submitted",
                                      !.order_qty = Some(EntryOrderQuantity(TouchFilters, Val(@))),
                                      !.taker_price = taker_price]
    /\ UNCHANGED << loop_vars, exit_levels, sizing, strat, klines, trades, feed, shutdown, pnl,
                    arming, signal, lifetime >>

NextTouch == HandleBookTicker \/ SizeEntry \/ SubmitEntry

SpecTouch == InitTouch /\ [][NextTouch]_vars

\* C38: the price at which entry() submits the order is the price the
\* quantity was sized with, so that quantity times submitted price is at
\* least minNotional.
C38_SizedAtSubmittedPrice ==
    touch.stage = "submitted" =>
        /\ touch.taker_price = touch.entry_limit_price
        /\ FracLe(Frac(Val(TouchFilters.minNotional), 1),
                  FracTimes(Val(touch.order_qty), Val(touch.taker_price)))

====
